---- MODULE Spec2Model ----
(***************************************************************************)
(* Process Surgeon: the client-side store (process-surgeon/src/store)      *)
(* that holds the process snapshot, reconciles it against the polling      *)
(* backend, mediates kill / container actions and keeps the audit log.     *)
(*                                                                         *)
(* JavaScript runs one task at a time.  An async store operation is split  *)
(* at its await: the part up to the remote invoke() is one action, the     *)
(* part after the remote answer (with the microtask continuations of its   *)
(* callers) is another.  Remote requests in flight and armed timers are    *)
(* kept in bags; the order in which they complete or fire is free.         *)
(***************************************************************************)
EXTENDS Bags, FiniteSets, Integers, Sequences, TLC

VARIABLES
    processes, totalConnections, listeningPorts, dockerAvailable, lastUpdated,
    isLoading, error,
    selectedPid, selectedPids, filterOptions, sortOptions, favoritePorts, storage,
    history,
    pollingInterval, isPolling,
    fetches, chains, timers, pending, issued,
    tracing, lookups, last

snapshotVars == <<processes, totalConnections, listeningPorts, dockerAvailable, lastUpdated>>
loadVars     == <<isLoading, error>>
\* storage is the value localStorage holds under the key favoritePorts
prefVars     == <<selectedPids, filterOptions, sortOptions, favoritePorts, storage>>
auditVars    == <<history>>
pollVars     == <<pollingInterval, isPolling>>
vars == <<processes, totalConnections, listeningPorts, dockerAvailable, lastUpdated,
          isLoading, error,
          selectedPid, selectedPids, filterOptions, sortOptions, favoritePorts, storage,
          history,
          pollingInterval, isPolling,
          fetches, chains, timers, pending, issued,
          tracing, lookups, last>>

\* every field of the store and everything in flight (all but the label last)
storeVars == <<snapshotVars, loadVars, selectedPid, prefVars, auditVars, pollVars,
               fetches, chains, timers, pending, issued, tracing, lookups>>

(***************************************************************************)
(* Bounds of the model.                                                    *)
(***************************************************************************)
\* kill_process / container_action requests issued in one behaviour
MaxActions == 1
\* get_processes requests of manual and follow-up fetches in flight at once
MaxInFlight == 2
\* poll chains (fetching or waiting on their timer) alive at once
MaxChains == 2
\* length of the favorites list up to which addFavoritePort is called
MaxFavorites == 3

(***************************************************************************)
(* Program constants.                                                      *)
(***************************************************************************)
HistoryLimit == 100
KillSettleDelay == 500
ContainerSettleDelay == 1000
DefaultPollingInterval == 2000
ContainerIdPrefix == 12
\* the range of a port number
LowestPort == 1
HighestPort == 65535

\* JavaScript null / undefined of a number-valued field (0 is falsy too)
Null == 0
\* null of the string-valued error field
NoError == "null"
\* container: null is the empty sequence, a ContainerInfo a one-element sequence
NoContainer == <<>>
ContainerInfo(id, name) == <<[id |-> id, name |-> name]>>

\* localStorage.getItem of a key that was never set
Absent == <<>>

FetchFailedText == "Failed to fetch processes"
FindFailedText == "Failed to find port"
KillFailedText == "Failed to kill process"
ContainerFailedText == "Failed to execute container action"

(***************************************************************************)
(* Data: process records and the scans the backend may answer with.        *)
(***************************************************************************)
PortEntry(protocol, localPort, state) ==
    [protocol |-> protocol, localPort |-> localPort, state |-> state]

\* commandLine: null is the empty sequence, a text a one-element sequence
NoCommandLine == <<>>
CommandLine(text) == <<text>>

ProcessNode(pid, name, user, ports, container, isProtected) ==
    [pid |-> pid, name |-> name, user |-> user, ports |-> ports,
     container |-> container, isProtected |-> isProtected,
     commandLine |-> NoCommandLine, memoryUsage |-> 0, cpuUsage |-> 0]

\* the process p with its command line and its resource usage
Running(p, commandLine, memoryUsage, cpuUsage) ==
    [p EXCEPT !.commandLine = commandLine, !.memoryUsage = memoryUsage,
              !.cpuUsage = cpuUsage]

PInit == Running(ProcessNode(1, "launchd", "root",
                             <<PortEntry("tcp", 22, "LISTENING")>>, NoContainer, TRUE),
                 CommandLine("/sbin/launchd"), 30, 0)
PNode == Running(ProcessNode(100, "node", "dev",
                             <<PortEntry("tcp", 3000, "LISTENING"),
                               PortEntry("udp", 5353, "UNKNOWN")>>,
                             NoContainer, FALSE),
                 CommandLine("node Server.js"), 80, 5)
PProxy == Running(ProcessNode(200, "docker-proxy", "root", <<>>,
                              ContainerInfo("0123456789abcdef", "web"), FALSE),
                  NoCommandLine, 10, 0)
PPostgres == Running(ProcessNode(300, "Postgres", "postgres",
                                 <<PortEntry("tcp", 5432, "ESTABLISHED"),
                                   PortEntry("tcp", 5432, "LISTENING")>>,
                                 NoContainer, FALSE),
                     CommandLine("postgres -D /data"), 80, 2)

AppState(ps, total, listening, docker, stamp) ==
    [processes |-> ps, totalConnections |-> total, listeningPorts |-> listening,
     dockerAvailable |-> docker, lastUpdated |-> stamp]

\* the initial data state of the store, as a snapshot
InitialSnapshot == AppState(<<>>, 0, 0, FALSE, Null)

\* answers of get_processes; they share field values pairwise so that a
\* field-wise merge of two scans is not itself a scan
Scans == { AppState(<<PInit, PNode>>, 2, 2, FALSE, 1),
           AppState(<<PInit, PProxy>>, 2, 1, TRUE, 2),
           AppState(<<PNode, PProxy>>, 3, 1, TRUE, 3) }

\* message of the AppError a rejected invoke carries ("" : none)
ErrorMessages == {"", "Permission denied"}

\* answers of kill_process / container_action
KillResults == { [success |-> TRUE, message |-> "Terminated", requiredElevation |-> FALSE],
                 [success |-> FALSE, message |-> "Operation not permitted", requiredElevation |-> TRUE] }

Pids == {1, 100}
\* pids toggleSelectedPid is called with; 999 is in no scan
SelectablePids == {1, 100, 200, 999}
\* scans the view is derived from: four processes, and one without a UDP binding
ViewScans == { AppState(<<PProxy, PPostgres, PNode, PInit>>, 5, 3, TRUE, 4),
               AppState(<<PPostgres, PInit, PProxy>>, 3, 2, TRUE, 5) }
SearchQueries == {"", "NODE", "30", "web"}
Protocols == {"all", "tcp", "udp"}
SocketStates == {"all", "LISTENING", "ESTABLISHED"}
SortFields == {"pid", "name", "port", "memory", "cpu", "user"}
\* the partial FilterOptions the header passes to setFilterOptions
FilterChoices ==
    {[searchQuery |-> q] : q \in SearchQueries}
        \cup {[selectedProtocol |-> x] : x \in Protocols}
        \cup {[selectedState |-> x] : x \in SocketStates}
SortChoices == [field : SortFields, direction : {"asc", "desc"}]
\* ports the favorites operations are called with
FavoriteChoices == {22, 3000, 5432}
\* first ports of rows whose favorite entry of the context menu is used
PinChoices == {22, 3000}
\* the favorites lists these rows can be toggled to
PinnedLists == {<<>>, <<22>>, <<3000>>, <<22, 3000>>, <<3000, 22>>}
\* ports findPort is called with, texts typed into the port search dialog
\* (its input keeps digits only), answers of find_port
LookupPorts == {0, 3000, 65535, 65536, 70000}
LookupTexts == {"", "0", "3000", "65535", "65536", "70000"}
LookupResults == {<<>>, <<PNode>>}
\* what localStorage may hold under favoritePorts when the store is created
StoredValues == {Absent, <<"">>, <<"[]">>, <<"[3000]">>, <<"[3000,22]">>,
                 <<"[3000,">>, <<"favorites">>}
ContainerIds == {"0123456789abcdef"}
ContainerActions == {"stop", "kill", "remove", "restart"}
Intervals == {2000, 5000}

BagAdd(b, x) == b (+) SetToBag({x})
BagDel(b, x) == b (-) SetToBag({x})

\* the snapshot held by the store
Snapshot == AppState(processes, totalConnections, listeningPorts, dockerAvailable, lastUpdated)

(***************************************************************************)
(* Initial state of the store.                                             *)
(***************************************************************************)
\* the data state of the store is the snapshot s
Holds(s) ==
    /\ processes = s.processes
    /\ totalConnections = s.totalConnections
    /\ listeningPorts = s.listeningPorts
    /\ dockerAvailable = s.dockerAvailable
    /\ lastUpdated = s.lastUpdated

\* nothing loading, selected, polling or in flight
Still ==
    /\ isLoading = FALSE
    /\ error = NoError
    /\ selectedPid = Null
    /\ selectedPids = {}
    /\ pollingInterval = DefaultPollingInterval
    /\ isPolling = FALSE
    /\ fetches = EmptyBag
    /\ chains = EmptyBag
    /\ timers = EmptyBag
    /\ pending = EmptyBag
    /\ lookups = EmptyBag

\* the initial UI and polling state of the store but for the favorites
Settled ==
    /\ Still
    /\ filterOptions = [showAllConnections |-> FALSE, searchQuery |-> "",
                        selectedProtocol |-> "all", selectedState |-> "all"]
    /\ sortOptions = [field |-> "port", direction |-> "asc"]

\* the store of a first run: localStorage holds no favorites
Quiet ==
    /\ Settled
    /\ favoritePorts = <<>>
    /\ storage = Absent
    /\ last = [op |-> "init"]

Idle == Quiet /\ tracing = FALSE

\* the readings of the millisecond clock around the time of the last entry
\* of a full log: the clock may stand still between two readings and may
\* have been set back
Clock == {HistoryLimit - 1, HistoryLimit + 1}

\* the digits Math.random() contributes to an id
Randoms == {0, 1}

\* what one call of addHistoryEntry reads: Date.now() and Math.random() for
\* the id, then new Date() for the timestamp
Stamps == [idNow : Clock, random : Randoms, now : Clock]

\* the same readings at every call: all the entries carry one id and one
\* timestamp
SameStamp == {[idNow |-> HistoryLimit + 1, random |-> 1, now |-> HistoryLimit + 1]}

\* an audit entry as addHistoryEntry stores it: the id is the text of a
\* clock reading and of random digits, the timestamp a clock reading
HistoryEntry(stamp, entry) ==
    [id |-> <<stamp.idNow, stamp.random>>, timestamp |-> stamp.now,
     action |-> entry.action,
     processName |-> entry.processName, pid |-> entry.pid, port |-> entry.port,
     success |-> entry.success, message |-> entry.message]

\* the log after n successful force kills of node (pid 100), one per
\* millisecond, the last appended first
LogAfter(n) ==
    [k \in 1..n |-> HistoryEntry([idNow |-> n + 1 - k, random |-> 0, now |-> n + 1 - k],
        [action |-> "force_kill", processName |-> "node", pid |-> 100, port |-> 3000,
         success |-> TRUE, message |-> "Terminated"])]

\* n actions were issued and completed: n entries appended
Logged(n) ==
    /\ history = LogAfter(n)
    /\ issued = n

Init == Holds(InitialSnapshot) /\ Idle /\ Logged(0)

(***************************************************************************)
(* fetchProcesses                                                          *)
(***************************************************************************)
\* message || fallback
OrDefault(message, fallback) == IF message = "" THEN fallback ELSE message

\* the store fields fetchProcesses sets before the invoke
FetchBegin ==
    /\ isLoading' = TRUE
    /\ error' = NoError

\* a try branch that forgets to replace lastUpdated
FetchApplyKeepsStamp(result) ==
    /\ processes' = result.processes
    /\ totalConnections' = result.totalConnections
    /\ listeningPorts' = result.listeningPorts
    /\ dockerAvailable' = result.dockerAvailable
    /\ lastUpdated' = lastUpdated
    /\ isLoading' = FALSE
    /\ error' = error

\* a try branch that replaces the process list but keeps the old counts
FetchApplyKeepsCounts(result) ==
    /\ processes' = result.processes
    /\ totalConnections' = totalConnections
    /\ listeningPorts' = listeningPorts
    /\ dockerAvailable' = result.dockerAvailable
    /\ lastUpdated' = result.lastUpdated
    /\ isLoading' = FALSE
    /\ error' = error

\* the set() of the try branch: the whole answer replaces the snapshot
FetchApply(result) ==
    /\ processes' = result.processes
    /\ totalConnections' = result.totalConnections
    /\ listeningPorts' = result.listeningPorts
    /\ dockerAvailable' = result.dockerAvailable
    /\ lastUpdated' = result.lastUpdated
    /\ isLoading' = FALSE
    /\ error' = error

\* a catch branch that blanks the process list
FetchCatchClears(message) ==
    /\ error' = OrDefault(message, FetchFailedText)
    /\ isLoading' = FALSE
    /\ processes' = <<>>
    /\ UNCHANGED <<totalConnections, listeningPorts, dockerAvailable, lastUpdated>>

\* the set() of the catch branch
FetchCatch(message) ==
    /\ error' = OrDefault(message, FetchFailedText)
    /\ isLoading' = FALSE
    /\ UNCHANGED snapshotVars

\* bookkeeping of a request: the snapshot the store held when the request
\* was issued, kept only in the traced specification
SeenNow == IF tracing THEN Snapshot ELSE InitialSnapshot

\* kept with the label of a resolved fetch while tracing: the
\* showAllConnections of the request whose answer the step before stored,
\* when the step before resolved a fetch too
Replaced ==
    IF tracing /\ last.op \in {"fetchResolved", "pollFetchResolved"}
    THEN <<last.fetch.showAll>>
    ELSE <<>>

\* a get_processes request in flight: who issued it and the showAllConnections
\* it carries
FetchRequest(origin) ==
    [origin |-> origin, showAll |-> filterOptions.showAllConnections, seen |-> SeenNow]

\* fetchProcesses() called by the refresh button or the refresh shortcut
FetchProcesses ==
    /\ FetchBegin
    /\ fetches' = BagAdd(fetches, FetchRequest("manual"))
    /\ last' = [op |-> "fetchProcesses"]
    /\ UNCHANGED <<snapshotVars, selectedPid, prefVars, auditVars, pollVars,
                   chains, timers, pending, issued, tracing, lookups>>

\* a completion that drops a selected pid the new snapshot does not hold
FetchResolvedDropsSelection(f, result) ==
    /\ BagIn(f, fetches)
    /\ FetchApply(result)
    /\ fetches' = BagDel(fetches, f)
    /\ last' = [op |-> "fetchResolved", fetch |-> f, result |-> result, before |-> Snapshot]
    /\ selectedPid' = IF \E k \in 1..Len(result.processes) : result.processes[k].pid = selectedPid
                      THEN selectedPid ELSE Null
    /\ UNCHANGED <<prefVars, auditVars, pollVars,
                   chains, timers, pending, issued, tracing, lookups>>

FetchResolved(f, result) ==
    /\ BagIn(f, fetches)
    /\ FetchApply(result)
    /\ fetches' = BagDel(fetches, f)
    /\ last' = [op |-> "fetchResolved", fetch |-> f, result |-> result, before |-> Snapshot,
                replaced |-> Replaced]
    /\ UNCHANGED <<selectedPid, prefVars, auditVars, pollVars,
                   chains, timers, pending, issued, tracing, lookups>>

\* a failed fetch that also switches polling off
FetchRejectedStopsPolling(f, message) ==
    /\ BagIn(f, fetches)
    /\ FetchCatch(message)
    /\ fetches' = BagDel(fetches, f)
    /\ isPolling' = FALSE
    /\ last' = [op |-> "fetchRejected", fetch |-> f, message |-> message]
    /\ UNCHANGED <<selectedPid, prefVars, auditVars, pollingInterval,
                   chains, timers, pending, issued, tracing, lookups>>

FetchRejected(f, message) ==
    /\ BagIn(f, fetches)
    /\ FetchCatch(message)
    /\ fetches' = BagDel(fetches, f)
    /\ last' = [op |-> "fetchRejected", fetch |-> f, message |-> message]
    /\ UNCHANGED <<selectedPid, prefVars, auditVars, pollVars,
                   chains, timers, pending, issued, tracing, lookups>>

(***************************************************************************)
(* startPolling / stopPolling / setPollingInterval and the poll chain.     *)
(* A chain is one run of the closure poll of startPolling: it is either    *)
(* awaiting its fetch or waiting on its setTimeout; interval is the        *)
(* pollingInterval the closure captured when startPolling ran.             *)
(***************************************************************************)
\* a poll fetch that always asks for the listening sockets only
ChainFetchingListeningOnly(interval) ==
    [phase |-> "fetch", interval |-> interval, showAll |-> FALSE, seen |-> SeenNow]

ChainFetching(interval) ==
    [phase |-> "fetch", interval |-> interval,
     showAll |-> filterOptions.showAllConnections, seen |-> SeenNow]
ChainWaiting(interval) ==
    [phase |-> "timer", interval |-> interval, showAll |-> FALSE, seen |-> InitialSnapshot]

\* a poll() that ends after its awaited fetch without arming a timer
RearmDropped(c) == BagDel(chains, c)

\* setTimeout(poll, pollingInterval) after the awaited fetch of chain c
Rearm(c) == BagAdd(BagDel(chains, c), ChainWaiting(c.interval))

\* a startPolling that waits one interval before its first fetch
StartPollingDelayed ==
    /\ last' = [op |-> "startPolling", wasPolling |-> isPolling]
    /\ IF isPolling
       THEN UNCHANGED <<snapshotVars, loadVars, selectedPid, prefVars, auditVars, pollVars,
                        fetches, chains, timers, pending, issued, tracing, lookups>>
       ELSE /\ isPolling' = TRUE
            /\ chains' = BagAdd(chains, ChainWaiting(pollingInterval))
            /\ UNCHANGED <<snapshotVars, loadVars, selectedPid, prefVars, auditVars,
                           pollingInterval, fetches, timers, pending, issued, tracing, lookups>>

\* startPolling without the isPolling check
StartPollingUnguarded ==
    /\ last' = [op |-> "startPolling", wasPolling |-> isPolling]
    /\ isPolling' = TRUE
    /\ FetchBegin
    /\ chains' = BagAdd(chains, ChainFetching(pollingInterval))
    /\ UNCHANGED <<snapshotVars, selectedPid, prefVars, auditVars, pollingInterval,
                   fetches, timers, pending, issued, tracing, lookups>>

StartPolling ==
    /\ last' = [op |-> "startPolling", wasPolling |-> isPolling]
    /\ IF isPolling
       THEN UNCHANGED <<snapshotVars, loadVars, selectedPid, prefVars, auditVars, pollVars,
                        fetches, chains, timers, pending, issued, tracing, lookups>>
       ELSE /\ isPolling' = TRUE
            /\ FetchBegin
            /\ chains' = BagAdd(chains, ChainFetching(pollingInterval))
            /\ UNCHANGED <<snapshotVars, selectedPid, prefVars, auditVars, pollingInterval,
                           fetches, timers, pending, issued, tracing, lookups>>

StopPolling ==
    /\ isPolling' = FALSE
    /\ last' = [op |-> "stopPolling"]
    /\ UNCHANGED <<snapshotVars, loadVars, selectedPid, prefVars, auditVars, pollingInterval,
                   fetches, chains, timers, pending, issued, tracing, lookups>>

SetPollingInterval(ms) ==
    /\ pollingInterval' = ms
    /\ last' = [op |-> "setPollingInterval", ms |-> ms]
    /\ UNCHANGED <<snapshotVars, loadVars, selectedPid, prefVars, auditVars, isPolling,
                   fetches, chains, timers, pending, issued, tracing, lookups>>

\* a completion that is dropped when the snapshot changed since the request
PollFetchResolvedIfCurrent(c, result) ==
    /\ BagIn(c, chains) /\ c.phase = "fetch"
    /\ IF c.seen = Snapshot THEN FetchApply(result)
       ELSE isLoading' = FALSE /\ error' = error /\ UNCHANGED snapshotVars
    /\ chains' = Rearm(c)
    /\ last' = [op |-> "pollFetchResolved", fetch |-> c, result |-> result, before |-> Snapshot]
    /\ UNCHANGED <<selectedPid, prefVars, auditVars, pollVars,
                   fetches, timers, pending, issued, tracing, lookups>>

\* the fetch a chain awaits resolves: the snapshot is replaced and poll re-arms
PollFetchResolved(c, result) ==
    /\ BagIn(c, chains) /\ c.phase = "fetch"
    /\ FetchApply(result)
    /\ chains' = Rearm(c)
    /\ last' = [op |-> "pollFetchResolved", fetch |-> c, result |-> result, before |-> Snapshot,
                replaced |-> Replaced]
    /\ UNCHANGED <<selectedPid, prefVars, auditVars, pollVars,
                   fetches, timers, pending, issued, tracing, lookups>>

\* a rejection that escapes fetchProcesses and ends poll before its setTimeout
PollFetchRejectedStops(c, message) ==
    /\ BagIn(c, chains) /\ c.phase = "fetch"
    /\ FetchCatch(message)
    /\ chains' = BagDel(chains, c)
    /\ last' = [op |-> "pollFetchRejected", fetch |-> c, message |-> message]
    /\ UNCHANGED <<selectedPid, prefVars, auditVars, pollVars,
                   fetches, timers, pending, issued, tracing, lookups>>

\* the fetch a chain awaits is rejected: fetchProcesses catches, poll re-arms
PollFetchRejected(c, message) ==
    /\ BagIn(c, chains) /\ c.phase = "fetch"
    /\ FetchCatch(message)
    /\ chains' = Rearm(c)
    /\ last' = [op |-> "pollFetchRejected", fetch |-> c, message |-> message]
    /\ UNCHANGED <<selectedPid, prefVars, auditVars, pollVars,
                   fetches, timers, pending, issued, tracing, lookups>>

\* a poll() that fetches without looking at isPolling
PollTimerFiredUnchecked(c) ==
    /\ BagIn(c, chains) /\ c.phase = "timer"
    /\ last' = [op |-> "pollTimerFired", chain |-> c, wasPolling |-> isPolling]
    /\ FetchBegin
    /\ chains' = BagAdd(BagDel(chains, c), ChainFetching(c.interval))
    /\ UNCHANGED <<snapshotVars, selectedPid, prefVars, auditVars, pollVars,
                   fetches, timers, pending, issued, tracing, lookups>>

\* the timer of a chain fires: poll() runs and checks isPolling
PollTimerFired(c) ==
    /\ BagIn(c, chains) /\ c.phase = "timer"
    /\ last' = [op |-> "pollTimerFired", chain |-> c, wasPolling |-> isPolling]
    /\ IF isPolling
       THEN /\ FetchBegin
            /\ chains' = BagAdd(BagDel(chains, c), ChainFetching(c.interval))
       ELSE /\ chains' = BagDel(chains, c)
            /\ UNCHANGED loadVars
    /\ UNCHANGED <<snapshotVars, selectedPid, prefVars, auditVars, pollVars,
                   fetches, timers, pending, issued, tracing, lookups>>

(***************************************************************************)
(* Audit log.                                                              *)
(***************************************************************************)
Take(s, n) == IF Len(s) <= n THEN s ELSE SubSeq(s, 1, n)

\* addHistoryEntry cutting the old log before it prepends
AddHistoryEntryLate(stamp, entry) ==
    <<HistoryEntry(stamp, entry)>> \o Take(history, HistoryLimit)

\* addHistoryEntry: the entry gets an id and the time the clock shows, goes
\* to the head, and the log is cut to its first HistoryLimit entries
AddHistoryEntry(stamp, entry) ==
    Take(<<HistoryEntry(stamp, entry)>> \o history, HistoryLimit)

\* a clearHistory that keeps the newest entry
ClearHistoryKeepsNewest ==
    /\ history' = Take(history, 1)
    /\ last' = [op |-> "clearHistory"]
    /\ UNCHANGED <<snapshotVars, loadVars, selectedPid, prefVars, pollVars,
                   fetches, chains, timers, pending, issued, tracing, lookups>>

ClearHistory ==
    /\ history' = <<>>
    /\ last' = [op |-> "clearHistory"]
    /\ UNCHANGED <<snapshotVars, loadVars, selectedPid, prefVars, pollVars,
                   fetches, chains, timers, pending, issued, tracing, lookups>>

(***************************************************************************)
(* killProcess and containerAction.                                        *)
(***************************************************************************)
\* Array.prototype.find: the first match as a one-element sequence, or <<>>
FindByPid(ps, pid) ==
    LET hits == {i \in 1..Len(ps) : ps[i].pid = pid}
    IN  IF hits = {} THEN <<>>
        ELSE <<ps[CHOOSE i \in hits : \A j \in hits : i <= j]>>

FindByContainer(ps, containerId) ==
    LET hits == {i \in 1..Len(ps) :
                    ps[i].container # NoContainer /\ ps[i].container[1].id = containerId}
    IN  IF hits = {} THEN <<>>
        ELSE <<ps[CHOOSE i \in hits : \A j \in hits : i <= j]>>

\* process?.ports[0]?.localPort
FirstPort(found) ==
    IF found = <<>> \/ found[1].ports = <<>> THEN Null ELSE found[1].ports[1].localPort

\* process?.name || 'Unknown'
KillTargetName(found) ==
    IF found = <<>> THEN "Unknown" ELSE OrDefault(found[1].name, "Unknown")

\* a target name that falls back on the whole container id
ContainerTargetNameWholeId(found, containerId) ==
    OrDefault(IF found = <<>> \/ found[1].container = NoContainer THEN ""
              ELSE found[1].container[1].name,
              containerId)

\* process?.container?.name || containerId.slice(0, 12)
ContainerTargetName(found, containerId) ==
    OrDefault(IF found = <<>> \/ found[1].container = NoContainer THEN ""
              ELSE found[1].container[1].name,
              SubSeq(containerId, 1, ContainerIdPrefix))

\* process?.pid || 0
ContainerTargetPid(found) == IF found = <<>> THEN 0 ELSE found[1].pid

KillActionKind(force) == IF force THEN "force_kill" ELSE "kill"
ContainerActionKind(action) == IF action = "stop" THEN "container_stop" ELSE "container_kill"

\* a catch branch that drops the error's own message
FailureResultGeneric(message, fallback) ==
    [success |-> FALSE, message |-> fallback, requiredElevation |-> FALSE]

\* the result the catch branch synthesizes
FailureResult(message, fallback) ==
    [success |-> FALSE, message |-> OrDefault(message, fallback), requiredElevation |-> FALSE]

\* what the caller of an action receives
Resolved(result) == [outcome |-> "resolved", value |-> result]

\* an audit entry that records every completed invocation as succeeded
EntryOfOptimistic(i, success, message) ==
    [action |-> i.kind, processName |-> i.processName, pid |-> i.pid, port |-> i.port,
     success |-> TRUE, message |-> message]

\* the audit entry of invocation i with the given outcome
EntryOf(i, success, message) ==
    [action |-> i.kind, processName |-> i.processName, pid |-> i.pid, port |-> i.port,
     success |-> success, message |-> message]

\* a refresh scheduled whatever the result
FollowUpAlways(result, delay) == BagAdd(timers, delay)

\* setTimeout(() => get().fetchProcesses(), delay) when the result is a success
FollowUp(result, delay) ==
    IF result.success THEN BagAdd(timers, delay) ELSE timers

\* a killProcess that joins an identical call already in flight
KillProcessOnce(pid, force, caller) ==
    /\ LET found == FindByPid(processes, pid)
           request == [op |-> "kill", target |-> pid, caller |-> caller,
                       kind |-> KillActionKind(force), processName |-> KillTargetName(found),
                       pid |-> pid, port |-> FirstPort(found), delay |-> KillSettleDelay,
                       fallback |-> KillFailedText]
       IN  pending' = IF BagIn(request, pending) THEN pending ELSE BagAdd(pending, request)
    /\ issued' = issued + 1
    /\ last' = [op |-> "killProcess", pid |-> pid, force |-> force, caller |-> caller]
    /\ UNCHANGED <<snapshotVars, loadVars, selectedPid, prefVars, auditVars, pollVars,
                   fetches, chains, timers, tracing, lookups>>

\* what killProcess does to the store up to the await: look the process up,
\* issue kill_process
KillIssued(pid, force, caller) ==
    /\ LET found == FindByPid(processes, pid)
       IN  pending' = BagAdd(pending,
               [op |-> "kill", target |-> pid, caller |-> caller,
                kind |-> KillActionKind(force), processName |-> KillTargetName(found),
                pid |-> pid, port |-> FirstPort(found), delay |-> KillSettleDelay,
                fallback |-> KillFailedText])
    /\ issued' = issued + 1
    /\ UNCHANGED <<snapshotVars, loadVars, prefVars, auditVars, pollVars,
                   fetches, chains, timers, tracing, lookups>>

\* killProcess up to the await, called by a handler that calls nothing else
\* in the same event (the row's buttons stop the propagation of the click)
KillProcess(pid, force, caller) ==
    /\ KillIssued(pid, force, caller)
    /\ selectedPid' = selectedPid
    /\ last' = [op |-> "killProcess", pid |-> pid, force |-> force, caller |-> caller]

\* App.handleKillFromPanel up to the await: killProcess(selectedPid, force)
\* when a pid is selected
HandleKillFromPanel(force) ==
    /\ selectedPid # Null
    /\ KillProcess(selectedPid, force, "panel")

\* the kill-selected shortcut: handleKillFromPanel(false) when a pid is selected
OnKillSelected ==
    /\ selectedPid # Null
    /\ HandleKillFromPanel(FALSE)

\* a click on Graceful Stop (force false) or Force Kill (force true) of the
\* details panel: the panel shows the selected process when the snapshot
\* holds it, and its buttons are disabled for a protected process
PanelOnKill(force) ==
    /\ LET found == FindByPid(processes, selectedPid)
       IN  found # <<>> /\ ~found[1].isProtected
    /\ HandleKillFromPanel(force)

\* containerAction up to the await
ContainerAction(containerId, action) ==
    /\ LET found == FindByContainer(processes, containerId)
       IN  pending' = BagAdd(pending,
               [op |-> "container", target |-> containerId, caller |-> "row",
                kind |-> ContainerActionKind(action),
                processName |-> ContainerTargetName(found, containerId),
                pid |-> ContainerTargetPid(found), port |-> FirstPort(found),
                delay |-> ContainerSettleDelay, fallback |-> ContainerFailedText])
    /\ issued' = issued + 1
    /\ last' = [op |-> "containerAction", containerId |-> containerId, action |-> action]
    /\ UNCHANGED <<snapshotVars, loadVars, selectedPid, prefVars, auditVars, pollVars,
                   fetches, chains, timers, tracing, lookups>>

\* the continuation of the caller: handleKillFromPanel clears the selection
\* on success, ProcessRow only alerts
AfterAction(i, result) ==
    IF i.caller = "panel" /\ result.success THEN selectedPid' = Null
    ELSE selectedPid' = selectedPid

\* a try branch that looks the target up when the answer arrives
ActionResolvedLooksUpLate(i, result, stamp) ==
    /\ BagIn(i, pending)
    /\ pending' = BagDel(pending, i)
    /\ LET found == FindByPid(processes, i.pid)
           late == IF i.op = "kill"
                   THEN [i EXCEPT !.processName = KillTargetName(found),
                                  !.port = FirstPort(found)]
                   ELSE i
       IN  history' = AddHistoryEntry(stamp, EntryOf(late, result.success, result.message))
    /\ timers' = FollowUp(result, i.delay)
    /\ AfterAction(i, result)
    /\ last' = [op |-> "actionResolved", invocation |-> i, remote |-> result,
                returned |-> Resolved(result)]
    /\ UNCHANGED <<snapshotVars, loadVars, prefVars, pollVars,
                   fetches, chains, issued, tracing, lookups>>

\* the try branch after the await: the remote call answered with result
ActionResolved(i, result, stamp) ==
    /\ BagIn(i, pending)
    /\ pending' = BagDel(pending, i)
    /\ history' = AddHistoryEntry(stamp, EntryOf(i, result.success, result.message))
    /\ timers' = FollowUp(result, i.delay)
    /\ AfterAction(i, result)
    /\ last' = [op |-> "actionResolved", invocation |-> i, remote |-> result,
                returned |-> Resolved(result)]
    /\ UNCHANGED <<snapshotVars, loadVars, prefVars, pollVars,
                   fetches, chains, issued, tracing, lookups>>

\* a catch branch that returns the failure without logging it
ActionRejectedSilent(i, message, stamp) ==
    /\ BagIn(i, pending)
    /\ pending' = BagDel(pending, i)
    /\ UNCHANGED auditVars
    /\ timers' = timers
    /\ AfterAction(i, FailureResult(message, i.fallback))
    /\ last' = [op |-> "actionRejected", invocation |-> i, message |-> message,
                returned |-> Resolved(FailureResult(message, i.fallback))]
    /\ UNCHANGED <<snapshotVars, loadVars, prefVars, pollVars,
                   fetches, chains, issued, tracing, lookups>>

\* the catch branch: the remote call was rejected with an AppError
ActionRejected(i, message, stamp) ==
    /\ BagIn(i, pending)
    /\ pending' = BagDel(pending, i)
    /\ history' = AddHistoryEntry(stamp, EntryOf(i, FALSE, OrDefault(message, i.fallback)))
    /\ timers' = timers
    /\ AfterAction(i, FailureResult(message, i.fallback))
    /\ last' = [op |-> "actionRejected", invocation |-> i, message |-> message,
                returned |-> Resolved(FailureResult(message, i.fallback))]
    /\ UNCHANGED <<snapshotVars, loadVars, prefVars, pollVars,
                   fetches, chains, issued, tracing, lookups>>

\* a settle timer whose callback fetches only while polling is on
FollowUpTimerFiredIfPolling(delay) ==
    /\ BagIn(delay, timers)
    /\ timers' = BagDel(timers, delay)
    /\ IF isPolling
       THEN FetchBegin /\ fetches' = BagAdd(fetches, FetchRequest("followup"))
       ELSE UNCHANGED <<loadVars, fetches>>
    /\ last' = [op |-> "followUpTimerFired", delay |-> delay]
    /\ UNCHANGED <<snapshotVars, selectedPid, prefVars, auditVars, pollVars,
                   chains, pending, issued, tracing, lookups>>

\* the settle timer of a successful action fires: fetchProcesses()
FollowUpTimerFired(delay) ==
    /\ BagIn(delay, timers)
    /\ timers' = BagDel(timers, delay)
    /\ FetchBegin
    /\ fetches' = BagAdd(fetches, FetchRequest("followup"))
    /\ last' = [op |-> "followUpTimerFired", delay |-> delay]
    /\ UNCHANGED <<snapshotVars, selectedPid, prefVars, auditVars, pollVars,
                   chains, pending, issued, tracing, lookups>>

(***************************************************************************)
(* Selection.                                                              *)
(***************************************************************************)
SetSelectedPid(pid) ==
    /\ selectedPid' = pid
    /\ last' = [op |-> "setSelectedPid", pid |-> pid]
    /\ UNCHANGED <<snapshotVars, loadVars, prefVars, auditVars, pollVars,
                   fetches, chains, timers, pending, issued, tracing, lookups>>

(***************************************************************************)
(* Text: the String methods the view and the favorites storage rely on.    *)
(***************************************************************************)
Digits == "0123456789"
LowerCase == "abcdefghijklmnopqrstuvwxyz"
UpperCase == "ABCDEFGHIJKLMNOPQRSTUVWXYZ"
\* primary order of localeCompare on the characters of names and users:
\* punctuation before digits before letters
Collation == "-0123456789abcdefghijklmnopqrstuvwxyz"

CharAt(s, i) == SubSeq(s, i, i)
Rest(s) == SubSeq(s, 2, Len(s))

\* String.prototype.indexOf for one character, counted from 1; 0 when absent
IndexOf(s, ch) ==
    LET hits == {i \in 1..Len(s) : CharAt(s, i) = ch}
    IN  IF hits = {} THEN 0 ELSE CHOOSE i \in hits : \A j \in hits : i <= j

\* Number.prototype.toString of a natural number
RECURSIVE NumberToString(_)
NumberToString(n) ==
    IF n < 10 THEN CharAt(Digits, n + 1)
    ELSE NumberToString(n \div 10) \o CharAt(Digits, (n % 10) + 1)

\* String.prototype.toLowerCase
RECURSIVE ToLowerCase(_)
ToLowerCase(s) ==
    IF s = "" THEN ""
    ELSE LET k == IndexOf(UpperCase, CharAt(s, 1))
         IN  (IF k = 0 THEN CharAt(s, 1) ELSE CharAt(LowerCase, k)) \o ToLowerCase(Rest(s))

\* String.prototype.includes
Includes(s, query) ==
    \E i \in 0..(Len(s) - Len(query)) : SubSeq(s, i + 1, i + Len(query)) = query

\* the first difference of two texts decides, a proper prefix goes first
CompareKeys(a, b, whenEqual) ==
    LET common == IF Len(a) < Len(b) THEN Len(a) ELSE Len(b)
        differs == {i \in 1..common : a[i] # b[i]}
        first == CHOOSE i \in differs : \A j \in differs : i <= j
    IN  IF differs # {}
        THEN (IF a[first] < b[first] THEN -1 ELSE 1)
        ELSE IF Len(a) < Len(b) THEN -1
        ELSE IF Len(a) > Len(b) THEN 1
        ELSE whenEqual

\* the rank of each character, without its case
PrimaryKeys(text) ==
    [i \in 1..Len(text) |-> IndexOf(Collation, ToLowerCase(CharAt(text, i)))]
\* lower case before upper case
CaseKeys(text) ==
    [i \in 1..Len(text) |-> IF IndexOf(UpperCase, CharAt(text, i)) = 0 THEN 0 ELSE 1]

\* String.prototype.localeCompare: letters compare without case first, the
\* case of the letters breaks a tie
LocaleCompare(a, b) ==
    CompareKeys(PrimaryKeys(a), PrimaryKeys(b), CompareKeys(CaseKeys(a), CaseKeys(b), 0))

(***************************************************************************)
(* The view of ProcessTable: filteredProcesses, then sortedProcesses.      *)
(***************************************************************************)
\* Array.prototype.filter, kept being the positions the callback accepts:
\* the elements at these positions, in their order
Filter(list, kept) ==
    LET Nth(k) == CHOOSE i \in kept : Cardinality({j \in kept : j <= i}) = k
    IN  [k \in 1..Cardinality(kept) |-> list[Nth(k)]]

\* a search clause that compares the text as typed
MatchesSearchAsTyped(p, searchQuery) ==
    \/ Includes(p.name, searchQuery)
    \/ Includes(NumberToString(p.pid), searchQuery)
    \/ Includes(p.user, searchQuery)
    \/ (p.commandLine # NoCommandLine /\ Includes(p.commandLine[1], searchQuery))
    \/ (p.container # NoContainer /\ Includes(p.container[1].name, searchQuery))
    \/ \E k \in 1..Len(p.ports) : Includes(NumberToString(p.ports[k].localPort), searchQuery)

\* the callback of the search filter
MatchesSearch(p, searchQuery) ==
    LET query == ToLowerCase(searchQuery)
    IN  \/ Includes(ToLowerCase(p.name), query)
        \/ Includes(NumberToString(p.pid), query)
        \/ Includes(ToLowerCase(p.user), query)
        \/ (p.commandLine # NoCommandLine /\ Includes(ToLowerCase(p.commandLine[1]), query))
        \/ (p.container # NoContainer /\ Includes(ToLowerCase(p.container[1].name), query))
        \/ \E k \in 1..Len(p.ports) : Includes(NumberToString(p.ports[k].localPort), query)

\* the callbacks of the protocol filter and of the state filter
HasProtocol(p, protocol) == \E k \in 1..Len(p.ports) : p.ports[k].protocol = protocol
HasState(p, state) == \E k \in 1..Len(p.ports) : p.ports[k].state = state

FilteredProcesses(ps, options) ==
    LET searched ==
            IF options.searchQuery # ""
            THEN Filter(ps, {i \in 1..Len(ps) : MatchesSearch(ps[i], options.searchQuery)})
            ELSE ps
        ofProtocol ==
            IF options.selectedProtocol # "all"
            THEN Filter(searched, {i \in 1..Len(searched) :
                                     HasProtocol(searched[i], options.selectedProtocol)})
            ELSE searched
    IN  IF options.selectedState # "all"
        THEN Filter(ofProtocol, {i \in 1..Len(ofProtocol) :
                                   HasState(ofProtocol[i], options.selectedState)})
        ELSE ofProtocol

HasFavoritePort(p, favorites) ==
    \E k \in 1..Len(p.ports) : \E f \in 1..Len(favorites) : favorites[f] = p.ports[k].localPort

\* a port key that puts a process without bindings behind every port
PortKeyAbsentLast(p) == IF p.ports = <<>> THEN HighestPort + 1 ELSE p.ports[1].localPort

\* a.ports[0]?.localPort ?? 0
PortKey(p) == IF p.ports = <<>> THEN 0 ELSE p.ports[1].localPort

\* the switch over sortOptions.field
FieldComparison(a, b, field) ==
    IF field = "pid" THEN a.pid - b.pid
    ELSE IF field = "name" THEN LocaleCompare(a.name, b.name)
    ELSE IF field = "port" THEN PortKey(a) - PortKey(b)
    ELSE IF field = "memory" THEN a.memoryUsage - b.memoryUsage
    ELSE IF field = "cpu" THEN a.cpuUsage - b.cpuUsage
    ELSE IF field = "user" THEN LocaleCompare(a.user, b.user)
    ELSE 0

\* a comparator whose direction flips the favorite key too
CompareFlipsFavorites(a, b, options, favorites) ==
    LET aFav == HasFavoritePort(a, favorites)
        bFav == HasFavoritePort(b, favorites)
        comparison == IF aFav # bFav THEN (IF aFav THEN -1 ELSE 1)
                      ELSE FieldComparison(a, b, options.field)
    IN  IF options.direction = "asc" THEN comparison ELSE 0 - comparison

\* the comparator handed to sort
Compare(a, b, options, favorites) ==
    LET aFav == HasFavoritePort(a, favorites)
        bFav == HasFavoritePort(b, favorites)
        comparison == FieldComparison(a, b, options.field)
    IN  IF aFav # bFav THEN (IF aFav THEN -1 ELSE 1)
        ELSE IF options.direction = "asc" THEN comparison ELSE 0 - comparison

\* p goes behind every element it does not precede
RECURSIVE InsertSorted(_, _, _, _)
InsertSorted(sorted, p, options, favorites) ==
    IF sorted = <<>> THEN <<p>>
    ELSE IF Compare(p, Head(sorted), options, favorites) < 0 THEN <<p>> \o sorted
    ELSE <<Head(sorted)>> \o InsertSorted(Tail(sorted), p, options, favorites)

\* Array.prototype.sort, a stable sort, on a copy of the filtered list
RECURSIVE SortedProcesses(_, _, _)
SortedProcesses(filtered, options, favorites) ==
    IF filtered = <<>> THEN <<>>
    ELSE InsertSorted(SortedProcesses(SubSeq(filtered, 1, Len(filtered) - 1), options, favorites),
                      filtered[Len(filtered)], options, favorites)

\* what ProcessTable displays for the state of the store
View == SortedProcesses(FilteredProcesses(processes, filterOptions), sortOptions, favoritePorts)

\* the processes of the snapshot
Processes == {processes[k] : k \in 1..Len(processes)}

\* ProcessTable displays a row for p: p is in the snapshot, and the filter,
\* which looks at one process at a time, retains it
HasRow(p) == p \in Processes /\ FilteredProcesses(<<p>>, filterOptions) # <<>>

\* the onClick of the row of p: setSelectedPid(isSelected ? null : process.pid)
RowClicked(p) == IF selectedPid = p.pid THEN Null ELSE p.pid

\* a click on Graceful Stop or Force Kill of the context menu of the row of
\* p (disabled for a protected process): handleKill(force) runs killProcess
\* up to its await, and the click goes on to the row, whose onClick runs
\* setSelectedPid in the same event
MenuKill(p, force) ==
    /\ HasRow(p) /\ ~p.isProtected
    /\ KillIssued(p.pid, force, "row")
    /\ selectedPid' = RowClicked(p)
    /\ last' = [op |-> "killProcess", pid |-> p.pid, force |-> force, caller |-> "menu"]

\* a render that sorts the list of the store itself
RenderSortsInPlace ==
    /\ processes' = SortedProcesses(processes, sortOptions, favoritePorts)
    /\ last' = [op |-> "render",
                view |-> SortedProcesses(FilteredProcesses(processes', filterOptions),
                                         sortOptions, favoritePorts)]
    /\ UNCHANGED <<totalConnections, listeningPorts, dockerAvailable, lastUpdated,
                   loadVars, selectedPid, prefVars, auditVars, pollVars,
                   fetches, chains, timers, pending, issued, tracing, lookups>>

\* ProcessTable renders: both memos are computed from copies
Render ==
    /\ last' = [op |-> "render", view |-> View]
    /\ UNCHANGED storeVars

\* { ...state.filterOptions, ...options }
Merge(current, options) ==
    [k \in DOMAIN current |-> IF k \in DOMAIN options THEN options[k] ELSE current[k]]

SetFilterOptions(options) ==
    /\ filterOptions' = Merge(filterOptions, options)
    /\ last' = [op |-> "setFilterOptions", options |-> options]
    /\ UNCHANGED <<snapshotVars, loadVars, selectedPid, selectedPids, sortOptions,
                   favoritePorts, storage, auditVars, pollVars,
                   fetches, chains, timers, pending, issued, tracing, lookups>>

SetSortOptions(options) ==
    /\ sortOptions' = Merge(sortOptions, options)
    /\ last' = [op |-> "setSortOptions", options |-> options]
    /\ UNCHANGED <<snapshotVars, loadVars, selectedPid, selectedPids, filterOptions,
                   favoritePorts, storage, auditVars, pollVars,
                   fetches, chains, timers, pending, issued, tracing, lookups>>

(***************************************************************************)
(* Multi-selection.                                                        *)
(***************************************************************************)
\* a toggle that only ever adds
ToggledAdds(selection, pid) == selection \cup {pid}

\* new Set(state.selectedPids) with pid deleted when present, added when not
Toggled(selection, pid) ==
    IF pid \in selection THEN selection \ {pid} ELSE selection \cup {pid}

\* the label of a toggle: the selection before it and, when the previous call
\* was a toggle of the same pid (again), the selection before that one
ToggleLabel(pid) ==
    LET again == IF last.op = "toggleSelectedPid" THEN last.pid = pid ELSE FALSE
    IN  [op |-> "toggleSelectedPid", pid |-> pid, before |-> selectedPids,
         again |-> again, start |-> IF again THEN last.before ELSE selectedPids]

ToggleSelectedPid(pid) ==
    /\ selectedPids' = Toggled(selectedPids, pid)
    /\ last' = ToggleLabel(pid)
    /\ UNCHANGED <<snapshotVars, loadVars, selectedPid, filterOptions, sortOptions,
                   favoritePorts, storage, auditVars, pollVars,
                   fetches, chains, timers, pending, issued, tracing, lookups>>

\* a select-all that takes the displayed processes only
SelectAllPidsShown ==
    /\ LET shown == FilteredProcesses(processes, filterOptions)
       IN  selectedPids' = {shown[k].pid : k \in 1..Len(shown)}
    /\ last' = [op |-> "selectAllPids", before |-> selectedPids]
    /\ UNCHANGED <<snapshotVars, loadVars, selectedPid, filterOptions, sortOptions,
                   favoritePorts, storage, auditVars, pollVars,
                   fetches, chains, timers, pending, issued, tracing, lookups>>

SelectAllPids ==
    /\ selectedPids' = {processes[k].pid : k \in 1..Len(processes)}
    /\ last' = [op |-> "selectAllPids", before |-> selectedPids]
    /\ UNCHANGED <<snapshotVars, loadVars, selectedPid, filterOptions, sortOptions,
                   favoritePorts, storage, auditVars, pollVars,
                   fetches, chains, timers, pending, issued, tracing, lookups>>

ClearSelectedPids ==
    /\ selectedPids' = {}
    /\ last' = [op |-> "clearSelectedPids"]
    /\ UNCHANGED <<snapshotVars, loadVars, selectedPid, filterOptions, sortOptions,
                   favoritePorts, storage, auditVars, pollVars,
                   fetches, chains, timers, pending, issued, tracing, lookups>>

(***************************************************************************)
(* Favorites and their copy in localStorage.                               *)
(***************************************************************************)
\* Array.prototype.includes
ListIncludes(list, x) == \E k \in 1..Len(list) : list[k] = x

\* Array.prototype.join(',') of the decimal texts
RECURSIVE JoinNumbers(_)
JoinNumbers(list) ==
    IF list = <<>> THEN ""
    ELSE IF Len(list) = 1 THEN NumberToString(list[1])
    ELSE NumberToString(list[1]) \o "," \o JoinNumbers(Tail(list))

\* JSON.stringify of a list of natural numbers
JsonStringify(list) == "[" \o JoinNumbers(list) \o "]"

\* a JSON number without sign, fraction or exponent
IsNumberText(text) ==
    /\ text # ""
    /\ \A i \in 1..Len(text) : IndexOf(Digits, CharAt(text, i)) # 0
    /\ (Len(text) = 1 \/ CharAt(text, 1) # "0")

RECURSIVE ParseNumber(_)
ParseNumber(text) ==
    IF text = "" THEN 0
    ELSE 10 * ParseNumber(SubSeq(text, 1, Len(text) - 1))
           + (IndexOf(Digits, CharAt(text, Len(text))) - 1)

\* the texts between the commas
RECURSIVE SplitAtCommas(_)
SplitAtCommas(text) ==
    LET k == IndexOf(text, ",")
    IN  IF k = 0 THEN <<text>>
        ELSE <<SubSeq(text, 1, k - 1)>> \o SplitAtCommas(SubSeq(text, k + 1, Len(text)))

\* JSON.parse of what favoritePorts can hold: a flat list of natural
\* numbers, or one natural number, written without white space.  Every
\* other text is a SyntaxError (threw), which is what JSON.parse answers
\* to a text that is no JSON; strings, objects, literals, nested lists and
\* signed or fractional numbers are not modelled
JsonParse(text) ==
    IF IsNumberText(text) THEN [threw |-> FALSE, value |-> ParseNumber(text)]
    ELSE IF Len(text) >= 2 /\ CharAt(text, 1) = "[" /\ CharAt(text, Len(text)) = "]"
    THEN LET inner == SubSeq(text, 2, Len(text) - 1)
             parts == SplitAtCommas(inner)
         IN  IF inner = "" THEN [threw |-> FALSE, value |-> <<>>]
             ELSE IF \A k \in 1..Len(parts) : IsNumberText(parts[k])
             THEN [threw |-> FALSE, value |-> [k \in 1..Len(parts) |-> ParseNumber(parts[k])]]
             ELSE [threw |-> TRUE, value |-> <<>>]
    ELSE [threw |-> TRUE, value |-> <<>>]

\* a creation that falls back to no favorites when the stored text is bad
LoadFavoritesGuarded(stored) ==
    LET parsed == JsonParse(IF stored = Absent \/ stored[1] = "" THEN "[]" ELSE stored[1])
    IN  IF parsed.threw THEN [threw |-> FALSE, value |-> <<>>] ELSE parsed

\* JSON.parse(localStorage.getItem('favoritePorts') || '[]')
LoadFavorites(stored) ==
    JsonParse(IF stored = Absent \/ stored[1] = "" THEN "[]" ELSE stored[1])

\* the store exists: its creation did not throw
Created == IF last.op = "create" THEN ~last.threw ELSE TRUE

\* localStorage.setItem('favoritePorts', JSON.stringify(newFavorites))
Persisted(newFavorites) == <<JsonStringify(newFavorites)>>

\* a mutation that updates the store and leaves localStorage as it was
SetFavoritesUnsaved(newFavorites, label) ==
    /\ favoritePorts' = newFavorites
    /\ storage' = storage
    /\ last' = label
    /\ UNCHANGED <<snapshotVars, loadVars, selectedPid, selectedPids, filterOptions,
                   sortOptions, auditVars, pollVars,
                   fetches, chains, timers, pending, issued, tracing, lookups>>

\* what the set() of addFavoritePort and removeFavoritePort does to the store
FavoritesStored(newFavorites) ==
    /\ favoritePorts' = newFavorites
    /\ storage' = Persisted(newFavorites)
    /\ UNCHANGED <<snapshotVars, loadVars, selectedPids, filterOptions,
                   sortOptions, auditVars, pollVars,
                   fetches, chains, timers, pending, issued, tracing, lookups>>

\* the set() of addFavoritePort and removeFavoritePort, called on its own
SetFavorites(newFavorites, label) ==
    /\ FavoritesStored(newFavorites)
    /\ selectedPid' = selectedPid
    /\ last' = label

\* a removal that takes out the first occurrence only
WithoutFirst(list, port) ==
    LET hits == {i \in 1..Len(list) : list[i] = port}
    IN  IF hits = {} THEN list
        ELSE Filter(list, (1..Len(list)) \ {CHOOSE i \in hits : \A j \in hits : i <= j})

\* state.favoritePorts.filter(p => p !== port)
Without(list, port) == Filter(list, {i \in 1..Len(list) : list[i] # port})

AddFavoritePort(port) ==
    SetFavorites(Append(favoritePorts, port), [op |-> "addFavoritePort", port |-> port])

RemoveFavoritePort(port) ==
    SetFavorites(Without(favoritePorts, port),
                 [op |-> "removeFavoritePort", port |-> port, before |-> favoritePorts])

ToggleFavoritePort(port) ==
    IF ListIncludes(favoritePorts, port)
    THEN SetFavorites(Without(favoritePorts, port), [op |-> "toggleFavoritePort", port |-> port])
    ELSE SetFavorites(Append(favoritePorts, port), [op |-> "toggleFavoritePort", port |-> port])

\* a click on the favorites item of the context menu of the row of p:
\* handleToggleFavorite calls toggleFavoritePort(first port) when the process
\* has a port, and the click goes on to the row, whose onClick runs
\* setSelectedPid in the same event
MenuToggleFavorite(p) ==
    /\ HasRow(p)
    /\ selectedPid' = RowClicked(p)
    /\ IF p.ports = <<>>
       THEN /\ last' = [op |-> "setSelectedPid", pid |-> RowClicked(p)]
            /\ UNCHANGED <<snapshotVars, loadVars, prefVars, auditVars, pollVars,
                           fetches, chains, timers, pending, issued, tracing, lookups>>
       ELSE LET port == p.ports[1].localPort
            IN  /\ FavoritesStored(IF ListIncludes(favoritePorts, port)
                                   THEN Without(favoritePorts, port)
                                   ELSE Append(favoritePorts, port))
                /\ last' = [op |-> "toggleFavoritePort", port |-> port,
                            caller |-> "menu", pid |-> p.pid]

(***************************************************************************)
(* findPort and the port search dialog.  lookups holds the find_port       *)
(* requests in flight.                                                     *)
(***************************************************************************)
\* parseInt(text, 10): the number its leading digits write, NaN without any
ParseInt(text) ==
    LET digits == {n \in 0..Len(text) :
                      \A i \in 1..n : IndexOf(Digits, CharAt(text, i)) # 0}
        longest == CHOOSE n \in digits : \A m \in digits : m <= n
    IN  IF longest = 0 THEN [nan |-> TRUE, value |-> 0]
        ELSE [nan |-> FALSE, value |-> ParseNumber(SubSeq(text, 1, longest))]

\* findPort up to the await: find_port is invoked with the port as given
FindPort(port, caller) ==
    /\ lookups' = BagAdd(lookups, [port |-> port, caller |-> caller])
    /\ last' = [op |-> "findPort", port |-> port, caller |-> caller]
    /\ UNCHANGED <<snapshotVars, loadVars, selectedPid, prefVars, auditVars, pollVars,
                   fetches, chains, timers, pending, issued, tracing>>

\* handleSearch of the dialog: the port is parsed and checked first
HandleSearch(text) ==
    LET portNum == ParseInt(text)
    IN  IF portNum.nan \/ portNum.value < LowestPort \/ portNum.value > HighestPort
        THEN /\ last' = [op |-> "handleSearch", text |-> text, rejected |-> TRUE]
             /\ UNCHANGED storeVars
        ELSE FindPort(portNum.value, "dialog")

\* find_port answered: findPort returns the processes
FindPortResolved(l, result) ==
    /\ BagIn(l, lookups)
    /\ lookups' = BagDel(lookups, l)
    /\ last' = [op |-> "findPortResolved", lookup |-> l,
                returned |-> [outcome |-> "resolved", value |-> result]]
    /\ UNCHANGED <<snapshotVars, loadVars, selectedPid, prefVars, auditVars, pollVars,
                   fetches, chains, timers, pending, issued, tracing>>

\* find_port was rejected: findPort throws an Error with the message
FindPortRejected(l, message) ==
    /\ BagIn(l, lookups)
    /\ lookups' = BagDel(lookups, l)
    /\ last' = [op |-> "findPortRejected", lookup |-> l,
                returned |-> [outcome |-> "threw",
                              message |-> OrDefault(message, FindFailedText)]]
    /\ UNCHANGED <<snapshotVars, loadVars, selectedPid, prefVars, auditVars, pollVars,
                   fetches, chains, timers, pending, issued, tracing>>

(***************************************************************************)
(* Next-state relations.  The bounds of the model guard the operations     *)
(* that start something new: a remote request, a poll chain.               *)
(***************************************************************************)
CanFetch == BagCardinality(fetches) < MaxInFlight
CanStart == isPolling \/ BagCardinality(chains) < MaxChains
CanAct == issued < MaxActions

FetchDone ==
    \/ \E f \in BagToSet(fetches), r \in Scans : FetchResolved(f, r)
    \/ \E f \in BagToSet(fetches), m \in ErrorMessages : FetchRejected(f, m)

IntervalNext == \E ms \in Intervals : SetPollingInterval(ms)

FetchNext ==
    \/ CanFetch /\ FetchProcesses
    \/ FetchDone

PollNext ==
    \/ CanStart /\ StartPolling
    \/ StopPolling
    \/ \E c \in BagToSet(chains), r \in Scans : PollFetchResolved(c, r)
    \/ \E c \in BagToSet(chains), m \in ErrorMessages : PollFetchRejected(c, m)
    \/ \E c \in BagToSet(chains) : PollTimerFired(c)

ActionNext ==
    \/ CanAct /\ \E pid \in Pids, force \in BOOLEAN : KillProcess(pid, force, "row")
    \/ CanAct /\ OnKillSelected
    \/ CanAct /\ \E force \in BOOLEAN : PanelOnKill(force)
    \/ CanAct /\ \E p \in Processes, force \in BOOLEAN : MenuKill(p, force)
    \/ CanAct /\ \E id \in ContainerIds, a \in ContainerActions : ContainerAction(id, a)
    \/ \E i \in BagToSet(pending), r \in KillResults, t \in SameStamp : ActionResolved(i, r, t)
    \/ \E i \in BagToSet(pending), m \in ErrorMessages, t \in SameStamp : ActionRejected(i, m, t)
    \/ CanFetch /\ \E d \in BagToSet(timers) : FollowUpTimerFired(d)
    \/ \E pid \in Pids \cup {Null} : SetSelectedPid(pid)
    \/ ClearHistory

\* one kill and its follow-up fetch, next to the scheduler
SettleNext ==
    \/ CanAct /\ KillProcess(100, TRUE, "row")
    \/ \E i \in BagToSet(pending), r \in {k \in KillResults : k.success}, t \in SameStamp :
          ActionResolved(i, r, t)
    \/ CanFetch /\ \E d \in BagToSet(timers) : FollowUpTimerFired(d)

\* actions on a log that already holds entries; CanAct counts from the bound.
\* The entries of the answered actions are stamped with every reading of
\* the clock and of the random digits.
AuditNext ==
    \/ issued < HistoryLimit + MaxActions /\ KillProcess(100, TRUE, "row")
    \/ issued < HistoryLimit + MaxActions
         /\ \E id \in ContainerIds : ContainerAction(id, "stop")
    \/ \E i \in BagToSet(pending), r \in KillResults, t \in Stamps : ActionResolved(i, r, t)
    \/ \E i \in BagToSet(pending), t \in SameStamp : ActionRejected(i, "", t)
    \/ ClearHistory

ViewNext ==
    \/ \E options \in FilterChoices : SetFilterOptions(options)
    \/ \E options \in SortChoices : SetSortOptions(options)
    \/ \E p \in Processes : FirstPort(<<p>>) \in PinChoices /\ MenuToggleFavorite(p)
    \/ Render

SelectNext ==
    \/ \E pid \in SelectablePids : ToggleSelectedPid(pid)
    \/ SelectAllPids
    \/ ClearSelectedPids

CanAdd == Len(favoritePorts) < MaxFavorites

FavoritesNext ==
    \/ Created /\ CanAdd /\ \E port \in FavoriteChoices : AddFavoritePort(port)
    \/ Created /\ \E port \in FavoriteChoices : RemoveFavoritePort(port)
    \/ Created /\ \E port \in FavoriteChoices : ToggleFavoritePort(port)

CanLookup == BagCardinality(lookups) < MaxInFlight

LookupNext ==
    \/ CanLookup /\ \E port \in LookupPorts : FindPort(port, "store")
    \/ CanLookup /\ \E text \in LookupTexts : HandleSearch(text)
    \/ \E l \in BagToSet(lookups), r \in LookupResults : FindPortResolved(l, r)
    \/ \E l \in BagToSet(lookups), m \in ErrorMessages : FindPortRejected(l, m)

\* the scans in which the process pid has gone
ScansWithout(pid) ==
    {s \in Scans : \A k \in 1..Len(s.processes) : s.processes[k].pid # pid}

\* the audit log at its limit under kills, clearHistory, fetches and the
\* selection, filter and favorites controls
LogNext ==
    \/ issued < HistoryLimit + MaxActions /\ KillProcess(100, TRUE, "row")
    \/ \E i \in BagToSet(pending), r \in KillResults, t \in SameStamp : ActionResolved(i, r, t)
    \/ \E i \in BagToSet(pending), t \in SameStamp : ActionRejected(i, "", t)
    \/ ClearHistory
    \/ CanFetch /\ FetchProcesses
    \/ \E f \in BagToSet(fetches), r \in ScansWithout(1) : FetchResolved(f, r)
    \/ \E f \in BagToSet(fetches) : FetchRejected(f, "")
    \/ ToggleSelectedPid(1)
    \/ SetFilterOptions([searchQuery |-> "NODE"])
    \/ ToggleFavoritePort(3000)

\* pids killProcess is called with: of a process with bindings, of one
\* without, and of none
KilledPids == {100, 200, 999}

\* kills awaiting their answer while manual fetches replace the snapshot
StaleNext ==
    \/ CanAct /\ \E pid \in KilledPids, force \in BOOLEAN : KillProcess(pid, force, "row")
    \/ \E i \in BagToSet(pending), r \in KillResults, t \in SameStamp : ActionResolved(i, r, t)
    \/ \E i \in BagToSet(pending), m \in ErrorMessages, t \in SameStamp : ActionRejected(i, m, t)
    \/ CanFetch /\ FetchProcesses
    \/ \E f \in BagToSet(fetches), r \in Scans : FetchResolved(f, r)

\* a kill or a container stop that succeeds, its settle timer and its
\* follow-up fetch, while polling is started and stopped
FollowUpNext ==
    \/ CanAct /\ KillProcess(100, FALSE, "row")
    \/ CanAct /\ \E id \in ContainerIds : ContainerAction(id, "stop")
    \/ \E i \in BagToSet(pending), r \in {k \in KillResults : k.success}, t \in SameStamp :
          ActionResolved(i, r, t)
    \/ CanFetch /\ \E d \in BagToSet(timers) : FollowUpTimerFired(d)
    \/ FetchDone
    \/ CanStart /\ StartPolling
    \/ StopPolling
    \/ \E c \in BagToSet(chains), r \in ScansWithout(1) : PollFetchResolved(c, r)
    \/ \E c \in BagToSet(chains) : PollTimerFired(c)

\* manual and poll fetches, answered with any scan, while the header
\* switches showAllConnections
ScopeNext ==
    \/ \E b \in BOOLEAN : SetFilterOptions([showAllConnections |-> b])
    \/ CanFetch /\ FetchProcesses
    \/ \E f \in BagToSet(fetches), r \in Scans : FetchResolved(f, r)
    \/ CanStart /\ StartPolling
    \/ \E c \in BagToSet(chains), r \in Scans : PollFetchResolved(c, r)
    \/ \E c \in BagToSet(chains) : PollTimerFired(c)

\* manual fetches racing with the fetches of a poll chain, all answered
RaceNext ==
    \/ CanFetch /\ FetchProcesses
    \/ \E f \in BagToSet(fetches), r \in Scans : FetchResolved(f, r)
    \/ CanStart /\ StartPolling
    \/ \E c \in BagToSet(chains), r \in Scans : PollFetchResolved(c, r)
    \/ \E c \in BagToSet(chains) : PollTimerFired(c)

\* actions invoked again while earlier ones are still awaiting their answer
CanRepeat == issued < MaxInFlight

RepeatNext ==
    \/ CanRepeat /\ \E pid \in Pids, force \in BOOLEAN : KillProcess(pid, force, "row")
    \/ CanRepeat /\ \E id \in ContainerIds, a \in ContainerActions : ContainerAction(id, a)
    \/ \E i \in BagToSet(pending), r \in KillResults, t \in SameStamp : ActionResolved(i, r, t)
    \/ \E i \in BagToSet(pending), m \in ErrorMessages, t \in SameStamp : ActionRejected(i, m, t)

\* the selection setters next to the operations that must leave the
\* selection alone
SelectionNext ==
    \/ ToggleSelectedPid(1)
    \/ SelectAllPids
    \/ ClearSelectedPids
    \/ \E pid \in Pids \cup {Null} : SetSelectedPid(pid)
    \/ \E f \in BagToSet(fetches), r \in ScansWithout(1) : FetchResolved(f, r)
    \/ \E f \in BagToSet(fetches) : FetchRejected(f, "")
    \/ CanAct /\ OnKillSelected
    \/ CanAct /\ \E p \in Processes : p.pid = 100 /\ MenuKill(p, FALSE)
    \/ CanAct /\ \E id \in ContainerIds : ContainerAction(id, "stop")
    \/ \E i \in BagToSet(pending), r \in {k \in KillResults : k.success}, t \in SameStamp :
          ActionResolved(i, r, t)
    \/ CanFetch /\ \E d \in BagToSet(timers) : FollowUpTimerFired(d)
    \/ SetFilterOptions([searchQuery |-> "NODE"])
    \/ SetSortOptions([field |-> "name", direction |-> "desc"])
    \/ \E p \in Processes : p.pid = 100 /\ MenuToggleFavorite(p)

Next == FetchNext \/ PollNext \/ ActionNext \/ IntervalNext
            \/ ViewNext \/ SelectNext \/ FavoritesNext \/ LookupNext

\* the whole store, from its construction
Spec == Init /\ [][Next]_vars

\* the snapshot store and the poll scheduler
SpecSync == Init /\ [][FetchNext \/ PollNext]_vars

\* the backend answers or rejects every poll fetch, and the event loop fires
\* every timer
PollFetchCompletes ==
    \/ \E c \in BagToSet(chains), r \in Scans : PollFetchResolved(c, r)
    \/ \E c \in BagToSet(chains), m \in ErrorMessages : PollFetchRejected(c, m)
PollTimerFires == \E c \in BagToSet(chains) : PollTimerFired(c)

\* the snapshot store and the poll scheduler under a backend that completes
\* every request and an event loop that fires every timer
SpecLive ==
    /\ Init /\ [][FetchNext \/ PollNext]_vars
    /\ WF_vars(PollFetchCompletes) /\ WF_vars(PollTimerFires)

\* the poll scheduler with the refresh-interval select of the header
SpecPoll == Init /\ [][PollNext \/ IntervalNext]_vars

\* the snapshot store under poll, manual and follow-up fetches
SpecFetch == Init /\ [][FetchNext \/ PollNext \/ SettleNext]_vars

\* the snapshot store and the poll scheduler, each request remembering the
\* snapshot it started from
InitTraced == Holds(InitialSnapshot) /\ Quiet /\ tracing = TRUE /\ Logged(0)
SpecTraced == InitTraced /\ [][FetchNext \/ PollNext]_vars

\* the store before the first fetch, or once the fetch App issues on mount has resolved
InitMounted == (\E s \in Scans \cup {InitialSnapshot} : Holds(s)) /\ Idle /\ Logged(0)

\* the action mediator and the audit log, with the follow-up fetches
SpecAction == InitMounted /\ [][ActionNext \/ FetchDone]_vars

\* the table over a snapshot, with its filter, sort and favorites controls
InitView == (\E s \in ViewScans : Holds(s)) /\ Idle /\ Logged(0)
SpecView == InitView /\ [][ViewNext]_vars

\* the table rendered over every snapshot, filter, sort and favorites list
\* the controls can set
InitDrawn ==
    /\ \E s \in ViewScans : Holds(s)
    /\ Still /\ tracing = FALSE /\ Logged(0)
    /\ filterOptions \in [showAllConnections : {FALSE}, searchQuery : SearchQueries,
                           selectedProtocol : Protocols, selectedState : SocketStates]
    /\ sortOptions \in SortChoices
    /\ favoritePorts \in PinnedLists
    /\ storage = Persisted(favoritePorts)
    /\ last = [op |-> "init"]
SpecRender == InitDrawn /\ [][Render]_vars

\* port lookups through the store and through the dialog
SpecLookup == InitMounted /\ [][LookupNext]_vars

\* manual and poll fetches in flight together, each request remembering the
\* snapshot it started from
SpecRace == InitTraced /\ [][RaceNext]_vars

\* follow-up fetches next to the poll scheduler
SpecFollowUp == InitMounted /\ [][FollowUpNext]_vars

\* the scope of the fetches under changes of showAllConnections
SpecScope == InitTraced /\ [][ScopeNext]_vars

\* kills in flight while the snapshot is replaced
SpecStale == InitMounted /\ [][StaleNext]_vars

\* actions invoked while others are in flight
SpecRepeat == InitMounted /\ [][RepeatNext]_vars

\* the selection under fetches, actions and view changes
SpecSelection == InitMounted /\ [][SelectionNext]_vars

\* the multi-selection over a snapshot
SpecSelect == InitMounted /\ [][SelectNext]_vars

\* the multi-selection over a snapshot under any search text
InitSearched ==
    /\ \E s \in Scans \cup {InitialSnapshot} : Holds(s)
    /\ Still /\ tracing = FALSE /\ Logged(0)
    /\ filterOptions \in [showAllConnections : {FALSE}, searchQuery : SearchQueries,
                           selectedProtocol : {"all"}, selectedState : {"all"}]
    /\ sortOptions = [field |-> "port", direction |-> "asc"]
    /\ favoritePorts = <<>> /\ storage = Absent
    /\ last = [op |-> "init"]
SpecSelectAll == InitSearched /\ [][SelectNext]_vars

\* the store as created over what localStorage holds; when the creation
\* throws there is no store and no operation can be called
InitStored ==
    /\ Holds(InitialSnapshot) /\ Settled /\ tracing = FALSE /\ Logged(0)
    /\ storage \in StoredValues
    /\ favoritePorts = LoadFavorites(storage).value
    /\ last = [op |-> "create", threw |-> LoadFavorites(storage).threw]

\* the favorites registry
SpecFavorites == InitStored /\ [][FavoritesNext]_vars

\* the store after the user searched, sorted by name and pinned two ports
InitFramed ==
    /\ Holds(InitialSnapshot)
    /\ Still /\ tracing = FALSE /\ Logged(0)
    /\ filterOptions = [showAllConnections |-> FALSE, searchQuery |-> "NODE",
                        selectedProtocol |-> "tcp", selectedState |-> "all"]
    /\ sortOptions = [field |-> "name", direction |-> "desc"]
    /\ favoritePorts = <<3000, 22>>
    /\ storage = Persisted(favoritePorts)
    /\ last = [op |-> "init"]

\* manual, poll and follow-up fetches over a store with preferences set
SpecFrame == InitFramed /\ [][FetchNext \/ PollNext \/ SettleNext]_vars

\* the store after many actions: the log is one short of its limit, or full
InitAudit ==
    /\ \E s \in Scans : Holds(s)
    /\ Idle
    /\ \E n \in {HistoryLimit - 1, HistoryLimit} : Logged(n)

\* the audit log at its limit, next to the operations that must leave it alone
InitLogged ==
    /\ \E s \in ScansWithout(200) : Holds(s)
    /\ Idle
    /\ Logged(HistoryLimit)
SpecLog == InitLogged /\ [][LogNext]_vars

\* the audit log at its limit
SpecAudit == InitAudit /\ [][AuditNext]_vars

(***************************************************************************)
(* Properties.                                                             *)
(***************************************************************************)
\* some process of ps has this pid and is protected
IsProtected(ps, pid) == \E k \in 1..Len(ps) : ps[k].pid = pid /\ ps[k].isProtected

\* this step completes one action invocation
Completes == BagCardinality(pending') = BagCardinality(pending) - 1

FetchFailed(op) == op \in {"fetchRejected", "pollFetchRejected"}
FetchSucceeded(op) == op \in {"fetchResolved", "pollFetchResolved"}

\* C1: killProcess on a pid that is protected in the current snapshot issues
\* no kill_process request (and so leaves nothing pending), whoever calls it.
C1_ProtectedNeverKilled ==
    [][(last'.op = "killProcess" /\ IsProtected(processes, last'.pid))
          => (issued' = issued /\ pending' = pending)]_vars

\* C2: a step adds one entry to the audit log if it completes an invocation
\* of killProcess or containerAction (resolved with success, resolved with
\* failure, or rejected), and adds none otherwise.
C2_OneEntryPerInvocation ==
    [][IF Completes
       THEN Len(history') = Len(history) + 1 /\ Tail(history') = history
       ELSE history' = history \/ (last'.op = "clearHistory" /\ history' = <<>>)]_vars

C2_Witness ==
    /\ last.op = "actionRejected"
    /\ Len(history) = 1
    /\ history[1].success = FALSE
    /\ pending = EmptyBag

\* C3: the audit log never holds more than 100 entries and is ordered by
\* append, the last appended first: an append puts the entry of the
\* completed invocation at the head and keeps the 99 last appended old
\* entries behind it in their order, so the oldest of 100 is discarded.
\* (The order is the order of the appends, not of the timestamps: the clock
\* may stand still or be set back between two appends.)
C3_LogBounded ==
    /\ [](Len(history) <= HistoryLimit)
    /\ [][Completes =>
            /\ history'[1].action = last'.invocation.kind
            /\ history'[1].pid = last'.invocation.pid
            /\ history'[1].success = last'.returned.value.success
            /\ SubSeq(history', 2, Len(history')) = Take(history, HistoryLimit - 1)]_vars

\* an entry was appended to the full log: it is the head, the old head is
\* behind it and the oldest entry is gone; the clock was set back, so the
\* head carries an older timestamp than the entry behind it
C3_Witness ==
    /\ last.op = "actionResolved"
    /\ Len(history) = HistoryLimit
    /\ history[2] = LogAfter(HistoryLimit)[1]
    /\ history[HistoryLimit] = LogAfter(HistoryLimit)[HistoryLimit - 1]
    /\ history[1].timestamp < history[2].timestamp

\* C4: an invocation whose remote result has success = true arms exactly one
\* follow-up timer (with its settle delay) and logs a succeeded entry; one
\* whose result has success = false or whose call is rejected arms none; no
\* other step arms a follow-up timer.
C4_FollowUpOnSuccess ==
    [][IF Completes /\ last'.op = "actionResolved" /\ last'.remote.success
       THEN /\ BagCardinality(timers') = BagCardinality(timers) + 1
            /\ CopiesIn(last'.invocation.delay, timers')
                 = CopiesIn(last'.invocation.delay, timers) + 1
            /\ history'[1].success
       ELSE IF Completes THEN timers' = timers
       ELSE BagCardinality(timers') <= BagCardinality(timers)]_vars

C4_Witness ==
    /\ last.op = "actionResolved"
    /\ last.remote.success
    /\ history[1].success
    /\ timers = SetToBag({last.invocation.delay})

\* the default failure text of each operation
DefaultFailureText(op) ==
    IF op = "kill" THEN "Failed to kill process" ELSE "Failed to execute container action"

\* C5: killProcess and containerAction always resolve; when the remote call
\* is rejected the caller receives success = false, the error's message (the
\* default failure text when it has none) and requiredElevation = false.
C5_RejectionBecomesResult ==
    /\ last.op \in {"actionResolved", "actionRejected"} => last.returned.outcome = "resolved"
    /\ last.op = "actionRejected" =>
         last.returned.value =
             [success |-> FALSE,
              message |-> IF last.message = "" THEN DefaultFailureText(last.invocation.op)
                          ELSE last.message,
              requiredElevation |-> FALSE]

C5_Witness ==
    /\ last.op = "actionRejected"
    /\ last.message # ""
    /\ last.returned.value.message = last.message

\* C6: right after a fetch resolves, the five snapshot fields are those of
\* its answer S2, whatever answer S1 an earlier fetch put there.
C6_LastFetchReplaces ==
    FetchSucceeded(last.op) => Snapshot = last.result

C6_Witness ==
    /\ FetchSucceeded(last.op)
    /\ last.before \in Scans
    /\ last.before # last.result
    /\ Snapshot = last.result

\* C7: in every state the five snapshot fields are together one answer of
\* get_processes, or together the initial values.
C7_OneGeneration ==
    Snapshot \in Scans \cup {InitialSnapshot}

C7_Witness ==
    /\ Snapshot \in Scans
    /\ last.op = "fetchRejected"
    /\ \E f \in BagToSet(fetches) : f.origin = "followup"
    /\ \E c \in BagToSet(chains) : c.phase = "fetch"

\* C8 as stated: after a fetch fails, the five snapshot fields are what they
\* were when that fetch started.
C8_AsWhenFetchStarted ==
    FetchFailed(last.op) => Snapshot = last.fetch.seen

\* C8, amended: the step that handles a fetch failure leaves the five
\* snapshot fields as they were just before it and sets error to the
\* failure's message, or to the default text when it has none.
C8_FailureKeepsSnapshot ==
    [][FetchFailed(last'.op) =>
          /\ Snapshot' = Snapshot
          /\ error' = (IF last'.message = "" THEN "Failed to fetch processes"
                       ELSE last'.message)]_vars

C8_Witness ==
    /\ FetchFailed(last.op)
    /\ Snapshot \in Scans
    /\ last.message = ""
    /\ error = "Failed to fetch processes"

\* C9: the step in which a poll fetch fails leaves isPolling as it was and
\* puts the chain on its timer with the chain's interval, as a successful
\* poll fetch does.
C9_FailedPollRearms ==
    [][last'.op = "pollFetchRejected" =>
          /\ isPolling' = isPolling
          /\ chains' = BagAdd(BagDel(chains, last'.fetch),
                              [phase |-> "timer", interval |-> last'.fetch.interval,
                               showAll |-> FALSE, seen |-> InitialSnapshot])]_vars

C9_Witness ==
    /\ last.op = "pollFetchRejected"
    /\ isPolling
    /\ error # NoError
    /\ \E c \in BagToSet(chains) : c.phase = "timer"

\* C10: startPolling() while isPolling is true changes no field of the
\* store, issues no fetch and arms no timer.
C10_StartWhilePollingIsNoOp ==
    [][(last'.op = "startPolling" /\ isPolling) => UNCHANGED storeVars]_vars

C10_Witness ==
    /\ last.op = "startPolling"
    /\ last.wasPolling
    /\ isPolling
    /\ BagCardinality(chains) = 1

\* the chains that await their fetch
FetchingChains(b) == {c \in BagToSet(b) : c.phase = "fetch"}
\* how many chains await their fetch
Fetching(b) == BagCardinality([c \in FetchingChains(b) |-> b[c]])

\* C11: while polling is on there is at most one poll chain (awaiting its
\* fetch or waiting on its timer), whatever startPolling() and stopPolling()
\* calls, fetch completions and timer firings came before.
C11_OneLiveChain ==
    isPolling => BagCardinality(chains) <= 1

\* C12: stopPolling() touches no chain and no request in flight; while
\* isPolling is false and startPolling() is not called no chain issues a
\* fetch, and a chain whose timer fires then ends; a poll fetch that
\* resolves replaces the snapshot whether polling is on or off.
C12_StopEndsChain ==
    [][/\ (~isPolling /\ last'.op # "startPolling") => Fetching(chains') <= Fetching(chains)
       /\ (last'.op = "pollTimerFired" /\ ~isPolling) =>
              (chains' = BagDel(chains, last'.chain) /\ UNCHANGED <<snapshotVars, loadVars>>)
       /\ last'.op = "stopPolling" =>
              (~isPolling' /\ chains' = chains /\ fetches' = fetches)
       /\ last'.op = "pollFetchResolved" => Snapshot' = last'.result]_vars

C12_Witness ==
    /\ last.op = "pollTimerFired"
    /\ ~last.wasPolling
    /\ ~isPolling
    /\ chains = EmptyBag
    /\ Snapshot \in Scans

\* C13: when a poll chain re-arms after its fetch, the delay of its timer
\* is the pollingInterval the store holds at that moment.
C13_RearmUsesCurrentInterval ==
    [][last'.op \in {"pollFetchResolved", "pollFetchRejected"} =>
          \A c \in BagToSet(chains') :
              (c.phase = "timer" /\ CopiesIn(c, chains') > CopiesIn(c, chains))
                  => c.interval = pollingInterval]_vars

\* some binding of p has its local port in the favorites list
Pinned(p) ==
    \E k \in 1..Len(p.ports) : p.ports[k].localPort \in {favoritePorts[f] : f \in 1..Len(favoritePorts)}

\* C14: in the displayed sequence no process without a favorite port comes
\* before a process with one, whatever the filter, the sort field and the
\* sort direction are.
C14_FavoritesFirst ==
    LET view == View
    IN  \A i \in 1..Len(view) : \A j \in 1..Len(view) :
            (Pinned(view[j]) /\ ~Pinned(view[i])) => j < i

C14_Witness ==
    /\ last.op = "render"
    /\ last.view = View
    /\ sortOptions = [field |-> "port", direction |-> "asc"]
    /\ favoritePorts = <<3000>>
    /\ Len(View) = 4
    /\ View[1].pid = 100
    /\ \E j \in 2..4 : View[j].pid = 1

\* the lower-cased texts of p the search looks into
SearchedTexts(p) ==
    {ToLowerCase(p.name), NumberToString(p.pid), ToLowerCase(p.user)}
        \cup {ToLowerCase(p.commandLine[k]) : k \in 1..Len(p.commandLine)}
        \cup {ToLowerCase(p.container[k].name) : k \in 1..Len(p.container)}
        \cup {NumberToString(p.ports[k].localPort) : k \in 1..Len(p.ports)}

\* p satisfies every active clause of the filter
Retained(p) ==
    /\ \/ filterOptions.searchQuery = ""
       \/ \E text \in SearchedTexts(p) : Includes(text, ToLowerCase(filterOptions.searchQuery))
    /\ \/ filterOptions.selectedProtocol = "all"
       \/ \E k \in 1..Len(p.ports) : p.ports[k].protocol = filterOptions.selectedProtocol
    /\ \/ filterOptions.selectedState = "all"
       \/ \E k \in 1..Len(p.ports) : p.ports[k].state = filterOptions.selectedState

\* how often p occurs in the list
Occurrences(list, p) == Cardinality({k \in 1..Len(list) : list[k] = p})

\* C15: the displayed sequence holds exactly the processes of the snapshot
\* that satisfy the search clause, the protocol clause and the state clause
\* (each clause by a binding of its own); with protocol udp over a snapshot
\* without UDP binding it is empty.
C15_FilterExact ==
    LET view == View
    IN  /\ \A k \in 1..Len(view) : Retained(view[k])
        /\ \A k \in 1..Len(processes) :
              Retained(processes[k]) =>
                  Occurrences(view, processes[k]) = Occurrences(processes, processes[k])
        /\ (/\ filterOptions.selectedProtocol = "udp"
            /\ \A k \in 1..Len(processes) : \A b \in 1..Len(processes[k].ports) :
                   processes[k].ports[b].protocol # "udp")
              => view = <<>>

C15_Witness ==
    /\ last.op = "render"
    /\ filterOptions.searchQuery = "NODE"
    /\ filterOptions.selectedProtocol = "udp"
    /\ filterOptions.selectedState = "LISTENING"
    /\ Len(processes) = 4
    /\ last.view = <<PNode>>

\* C16: a render changes no field of the store, and setFilterOptions and
\* setSortOptions leave the snapshot, the favorites and each other's
\* options as they were.
C16_ViewLeavesStore ==
    [][/\ last'.op = "render" => UNCHANGED storeVars
       /\ last'.op = "setFilterOptions" =>
              UNCHANGED <<snapshotVars, sortOptions, favoritePorts, storage>>
       /\ last'.op = "setSortOptions" =>
              UNCHANGED <<snapshotVars, filterOptions, favoritePorts, storage>>]_vars

C16_Witness ==
    /\ last.op = "render"
    /\ Len(last.view) = 4
    /\ last.view # processes
    /\ processes = <<PProxy, PPostgres, PNode, PInit>>

\* C17: one toggleSelectedPid(p) adds p when it is absent and removes it
\* when it is present and touches no other member; a second
\* toggleSelectedPid(p) right after the first gives back the selection the
\* first one started from.
C17_ToggleTwice ==
    /\ [](last.op = "toggleSelectedPid" =>
            /\ selectedPids \ {last.pid} = last.before \ {last.pid}
            /\ (last.pid \in selectedPids) = (last.pid \notin last.before)
            /\ last.again => selectedPids = last.start)
    /\ [][last'.op = "toggleSelectedPid" => last'.before = selectedPids]_vars

C17_Witness ==
    /\ last.op = "toggleSelectedPid"
    /\ last.again
    /\ last.pid = 100
    /\ selectedPids = {1, 100}
    /\ last.before = {1}

\* C18: the favorites list never holds the same port twice.
C18_NoDuplicateFavorites ==
    \A i \in 1..Len(favoritePorts) : \A j \in 1..Len(favoritePorts) :
        i # j => favoritePorts[i] # favoritePorts[j]

FavoriteOps == {"addFavoritePort", "removeFavoritePort", "toggleFavoritePort"}

\* C19: after each addFavoritePort, removeFavoritePort and
\* toggleFavoritePort the text stored under favoritePorts parses to the
\* favorites list of the store, same ports in the same order.
C19_WriteThrough ==
    [][last'.op \in FavoriteOps =>
          /\ storage' # Absent
          /\ JsonParse(storage'[1]) = [threw |-> FALSE, value |-> favoritePorts']]_vars

C19_Witness ==
    /\ last.op = "toggleFavoritePort"
    /\ favoritePorts = <<22, 5432>>
    /\ storage = <<"[22,5432]">>

\* C20: the creation of the store never throws, and over an absent or an
\* unparseable stored value the favorites list starts empty.
C20_CreationNeverThrows ==
    last.op = "create" =>
        /\ ~last.threw
        /\ storage \in {Absent, <<"[3000,">>, <<"favorites">>} => favoritePorts = <<>>

\* C21: every find_port request in flight carries a port within 1..65535,
\* whether findPort was called directly or by the port search dialog.
C21_LookupInRange ==
    \A l \in BagToSet(lookups) : l.port >= 1 /\ l.port <= 65535

\* the pids of the processes of a list
PidsOf(ps) == {ps[k].pid : k \in 1..Len(ps)}

\* the setSelectedPid call an event makes next to its store operation, as a
\* list of its argument: the row's onClick after a context-menu item, and
\* the setSelectedPid(null) of App's details panel after a kill that succeeded
SelectsAlso(l) ==
    IF l.op \in {"killProcess", "toggleFavoritePort"}
    THEN (IF "caller" \in DOMAIN l
          THEN (IF l.caller = "menu"
                THEN <<IF selectedPid = l.pid THEN Null ELSE l.pid>>
                ELSE <<>>)
          ELSE <<>>)
    ELSE IF l.op = "actionResolved"
    THEN (IF l.invocation.caller = "panel" /\ l.remote.success THEN <<Null>> ELSE <<>>)
    ELSE <<>>

C23_NoDeduplication ==
    /\ [](BagCardinality(pending) + Len(history) = issued)
    /\ [][/\ last'.op \in {"killProcess", "containerAction"} =>
               /\ BagCardinality(pending') = BagCardinality(pending) + 1
               /\ \E i \in BagToSet(pending') :
                      /\ pending' = BagAdd(pending, i)
                      /\ CopiesIn(i, pending') = CopiesIn(i, pending) + 1
               /\ history' = history
          /\ last'.op \in {"actionResolved", "actionRejected"} =>
               /\ pending' = BagDel(pending, last'.invocation)
               /\ CopiesIn(last'.invocation, pending')
                      = CopiesIn(last'.invocation, pending) - 1
               /\ Len(history') = Len(history) + 1
               /\ history'[1].action = last'.invocation.kind
               /\ history'[1].pid = last'.invocation.pid
               /\ \A k \in 1..Len(history) : history'[k + 1] = history[k]]_vars

\* one of two identical invocations has been answered and logged while its
\* twin is still in flight
C23_Witness ==
    /\ last.op = "actionResolved"
    /\ Len(history) = 1
    /\ CopiesIn(last.invocation, pending) = 1
    /\ issued = 2

\* the get_processes requests in flight, of manual and of poll fetches
InFlight ==
    BagCardinality(fetches)
      + BagCardinality([c \in {x \in BagToSet(chains) : x.phase = "fetch"} |-> CopiesIn(c, chains)])

\* C24: a fetch issued while another is in flight puts a request of its own
\* in flight; a fetch that resolves while another is in flight, or after
\* another completed since it was issued, replaces the snapshot by its own
\* answer and takes only its own request out.
C24_LastCompletionWins ==
    [][/\ (\/ last'.op = "fetchProcesses"
           \/ last'.op = "startPolling" /\ ~last'.wasPolling
           \/ last'.op = "pollTimerFired" /\ last'.wasPolling)
              => InFlight' = InFlight + 1
       /\ (FetchSucceeded(last'.op) /\ (InFlight >= 2 \/ last'.fetch.seen # Snapshot))
              => /\ Snapshot' = last'.result
                 /\ InFlight' = InFlight - 1]_vars

\* a poll fetch issued over the initial snapshot resolves last, after another
\* fetch put a newer answer in the store, and its older answer is the snapshot
C24_Witness ==
    /\ last.op = "pollFetchResolved"
    /\ last.fetch.seen = InitialSnapshot
    /\ last.before # InitialSnapshot
    /\ last.result.lastUpdated < last.before.lastUpdated
    /\ Snapshot = last.result
    /\ InFlight = 0

\* the chains awaiting their fetch (phase "fetch") or their timer ("timer")
ChainsIn(phase) ==
    BagCardinality([c \in {x \in BagToSet(chains) : x.phase = phase} |-> CopiesIn(c, chains)])

\* C25: startPolling() while isPolling is false sets isPolling and puts a new
\* chain in flight with its fetch already issued, in that same step; a chain
\* issues a further fetch only when its timer fires, and gets its timer only
\* when its fetch completes, so a chain is either awaiting one fetch or
\* waiting on one timer and no other step issues a poll fetch.
C25_ChainIsSequential ==
    [][/\ (last'.op = "startPolling" /\ ~last'.wasPolling)
              => /\ isPolling' /\ isLoading'
                 /\ chains' = BagAdd(chains, ChainFetching(pollingInterval))
                 /\ ChainsIn("fetch")' = ChainsIn("fetch") + 1
                 /\ ChainsIn("timer")' = ChainsIn("timer")
       /\ (last'.op = "pollTimerFired" /\ last'.wasPolling)
              => /\ last'.chain.phase = "timer"
                 /\ BagIn(last'.chain, chains)
                 /\ ChainsIn("timer")' = ChainsIn("timer") - 1
                 /\ ChainsIn("fetch")' = ChainsIn("fetch") + 1
       /\ last'.op \in {"pollFetchResolved", "pollFetchRejected"}
              => /\ last'.fetch.phase = "fetch"
                 /\ BagIn(last'.fetch, chains)
                 /\ ChainsIn("fetch")' = ChainsIn("fetch") - 1
                 /\ ChainsIn("timer")' = ChainsIn("timer") + 1
       /\ ChainsIn("fetch")' > ChainsIn("fetch")
              => \/ last'.op = "startPolling" /\ ~last'.wasPolling
                 \/ last'.op = "pollTimerFired" /\ last'.wasPolling
       /\ ChainsIn("timer")' > ChainsIn("timer")
              => last'.op \in {"pollFetchResolved", "pollFetchRejected"}]_vars

\* the timer of the only chain fired after its first fetch had completed, and
\* the chain awaits its second fetch
C25_Witness ==
    /\ last.op = "pollTimerFired" /\ last.wasPolling
    /\ Snapshot # InitialSnapshot
    /\ ChainsIn("fetch") = 1 /\ ChainsIn("timer") = 0
    /\ fetches = EmptyBag

\* a poll chain has just issued a fetch
PollFetchIssued ==
    /\ \/ last.op = "startPolling" /\ ~last.wasPolling
       \/ last.op = "pollTimerFired" /\ last.wasPolling
    /\ ChainsIn("fetch") >= 1
    /\ isLoading

\* C26: when every poll fetch completes and every timer fires, a behaviour
\* in which polling is started and from then on never stopped issues poll
\* fetches again and again, whether the fetches resolve or are rejected.
C26_PollingKeepsFetching ==
    (<>[]isPolling) => []<>PollFetchIssued

\* polling is on, the first fetch of the only chain was rejected, and the
\* chain has issued its next fetch without any restart
C26_Witness ==
    /\ last.op = "pollTimerFired" /\ last.wasPolling
    /\ isPolling
    /\ Snapshot = InitialSnapshot
    /\ ChainsIn("fetch") = 1 /\ ChainsIn("timer") = 0
    /\ fetches = EmptyBag

\* a goes before b by the sort field alone: numbers by value, the port being
\* that of the first binding or 0, names and users by localeCompare
GoesBefore(a, b, field) ==
    IF field = "name" THEN LocaleCompare(a.name, b.name) < 0
    ELSE IF field = "user" THEN LocaleCompare(a.user, b.user) < 0
    ELSE IF field = "pid" THEN a.pid < b.pid
    ELSE IF field = "memory" THEN a.memoryUsage < b.memoryUsage
    ELSE IF field = "cpu" THEN a.cpuUsage < b.cpuUsage
    ELSE (IF Len(a.ports) = 0 THEN 0 ELSE Head(a.ports).localPort)
             < (IF Len(b.ports) = 0 THEN 0 ELSE Head(b.ports).localPort)

\* the position of p in the snapshot
PlaceOf(p) == CHOOSE k \in 1..Len(processes) : processes[k] = p

\* C27: of two displayed processes with the same favorite status, the later
\* one never goes before the earlier one by the sort field when the direction
\* is asc, the earlier one never goes before the later one when it is desc,
\* and two that the field does not tell apart stand in their snapshot order
\* in both directions.
C27_SortedWithinGroup ==
    LET view == View
    IN  \A i \in 1..Len(view) : \A j \in 1..Len(view) :
            (i < j /\ Pinned(view[i]) = Pinned(view[j])) =>
                LET forward == GoesBefore(view[i], view[j], sortOptions.field)
                    backward == GoesBefore(view[j], view[i], sortOptions.field)
                IN  /\ sortOptions.direction = "asc" => ~backward
                    /\ sortOptions.direction = "desc" => ~forward
                    /\ (~forward /\ ~backward) => PlaceOf(view[i]) < PlaceOf(view[j])

\* by memory, descending, no favorites: Postgres and node tie at the top and
\* keep their snapshot order, docker-proxy comes last
C27_Witness ==
    /\ last.op = "render"
    /\ last.view = View
    /\ sortOptions = [field |-> "memory", direction |-> "desc"]
    /\ favoritePorts = <<>>
    /\ Len(View) = 4
    /\ View[1].pid = 300 /\ View[2].pid = 100 /\ View[4].pid = 200
    /\ PlaceOf(View[1]) < PlaceOf(View[2])

\* C28: right after selectAllPids() the multi-selection is the set of the
\* pids of all processes of the snapshot, whatever the filter shows and
\* whatever was selected before; the call changes neither the snapshot nor
\* the filter.
C28_SelectAllIsSnapshot ==
    /\ [](last.op = "selectAllPids" => selectedPids = PidsOf(processes))
    /\ [][last'.op = "selectAllPids" =>
             /\ last'.before = selectedPids
             /\ UNCHANGED <<processes, filterOptions>>]_vars

\* a search hides a process of the snapshot and pid 999, of no process, was
\* selected: select-all takes the hidden process and drops 999
C28_Witness ==
    /\ last.op = "selectAllPids"
    /\ 999 \in last.before
    /\ 999 \notin selectedPids
    /\ filterOptions.searchQuery = "NODE"
    /\ Len(FilteredProcesses(processes, filterOptions)) = 1
    /\ selectedPids = {1, 100}

\* C29: removeFavoritePort(p) leaves a list without p as it is; from a list
\* with p it takes out every occurrence of p, and the other ports stay, each
\* as often as before and in the order they had.
C29_RemoveEveryOccurrence ==
    [][last'.op = "removeFavoritePort" =>
          LET before == favoritePorts
              after == favoritePorts'
              port == last'.port
              others == {i \in 1..Len(before) : before[i] # port}
          IN  /\ last'.before = before
              /\ (\A i \in 1..Len(before) : before[i] # port) => after = before
              /\ \A k \in 1..Len(after) : after[k] # port
              /\ Len(after) = Cardinality(others)
              /\ \A i \in others :
                     after[Cardinality({j \in others : j <= i})] = before[i]]_vars

\* 3000 stood twice in the list, around 22, and both occurrences are gone
C29_Witness ==
    /\ last.op = "removeFavoritePort"
    /\ last.port = 3000
    /\ last.before = <<3000, 22, 3000>>
    /\ favoritePorts = <<22>>

\* the steps of fetchProcesses: the call up to its await, however it was
\* called, and its completions
FetchSteps ==
    {"fetchProcesses", "followUpTimerFired", "pollTimerFired",
     "fetchResolved", "fetchRejected", "pollFetchResolved", "pollFetchRejected"}

\* C30: a step of a fetch, begun or completed, resolved or rejected, leaves
\* the favorites and their stored copy, the audit log, the filter and sort
\* options, isPolling, pollingInterval and the selection as they were; the
\* start of a fetch leaves the snapshot too, and the startPolling() that
\* begins the first poll fetch changes isPolling and nothing else of these.
C30_FetchFrame ==
    [][/\ last'.op \in FetchSteps =>
              UNCHANGED <<favoritePorts, storage, history, filterOptions,
                          sortOptions, isPolling, pollingInterval,
                          selectedPid, selectedPids>>
       /\ last'.op \in {"fetchProcesses", "followUpTimerFired", "pollTimerFired",
                         "startPolling", "fetchRejected", "pollFetchRejected"}
              => UNCHANGED snapshotVars
       /\ last'.op = "startPolling" =>
              UNCHANGED <<favoritePorts, storage, history, filterOptions,
                          sortOptions, pollingInterval, selectedPid, selectedPids>>]_vars

\* a manual fetch failed while polling is on, a kill is in the audit log and
\* the follow-up fetch of the kill has replaced the snapshot
C30_Witness ==
    /\ last.op = "fetchRejected"
    /\ last.fetch.origin = "manual"
    /\ error # NoError
    /\ isPolling
    /\ Len(history) = 1
    /\ Snapshot # InitialSnapshot
    /\ favoritePorts = <<3000, 22>>
    /\ filterOptions.searchQuery = "NODE"
    /\ sortOptions.field = "name"

\* C31: a step leaves the audit log as it is, or it is clearHistory() and
\* the log is empty after it, or it completes an action and the log after it
\* is one new entry followed by the old entries, unmodified and in their
\* order, cut after the 100th; steps of fetches and of the selection, filter
\* and favorites operations leave the log as it is.
C31_LogAppendOnly ==
    [][/\ \/ history' = history
          \/ last'.op = "clearHistory" /\ history' = <<>>
          \/ /\ last'.op \in {"actionResolved", "actionRejected"}
             /\ Len(history') = (IF Len(history) < HistoryLimit THEN Len(history) + 1
                                 ELSE HistoryLimit)
             /\ \A k \in 2..Len(history') : history'[k] = history[k - 1]
             /\ history'[1].pid = last'.invocation.pid
       /\ last'.op \in {"fetchProcesses", "fetchResolved", "fetchRejected",
                         "toggleSelectedPid", "setFilterOptions", "toggleFavoritePort",
                         "killProcess"}
              => history' = history]_vars

\* a kill was logged on the full log, pushing the oldest entry out, and a
\* fetch that resolved afterwards left the log as the kill made it
C31_Witness ==
    /\ last.op = "fetchResolved"
    /\ Len(history) = HistoryLimit
    /\ history[1].id = <<HistoryLimit + 1, 1>>
    /\ history[2] = LogAfter(HistoryLimit)[1]
    /\ history[HistoryLimit] = LogAfter(HistoryLimit)[HistoryLimit - 1]
    /\ favoritePorts = <<3000>>
    /\ selectedPids = {1}

\* C32: right after an invocation of killProcess or containerAction
\* completes, the newest audit entry has the success and the message of the
\* result the caller received; when the remote call answered, the caller
\* received that answer unchanged, so an answer with success = false gives an
\* entry with success = false.
C32_EntryMatchesResult ==
    last.op \in {"actionResolved", "actionRejected"} =>
        /\ history # <<>>
        /\ history[1].success = last.returned.value.success
        /\ history[1].message = last.returned.value.message
        /\ history[1].action = last.invocation.kind
        /\ last.op = "actionResolved" =>
               /\ last.returned.value = last.remote
               /\ history[1].success = last.remote.success

\* the remote call answered success = false without raising: the caller got
\* that answer, elevation flag included, and the entry is a failed one
C32_Witness ==
    /\ last.op = "actionResolved"
    /\ ~last.remote.success
    /\ last.remote.requiredElevation
    /\ last.returned.value = last.remote
    /\ ~history[1].success
    /\ history[1].message = "Operation not permitted"

\* the processes of the snapshot with the given pid
WithPid(pid) == {k \in 1..Len(processes) : processes[k].pid = pid}
FirstWithPid(pid) == processes[CHOOSE k \in WithPid(pid) : \A j \in WithPid(pid) : k <= j]

\* C33: the step that invokes killProcess(pid, force) issues one request,
\* which carries the name and the first port of the process with that pid in
\* the snapshot of that moment, or 'Unknown' and no port when the snapshot
\* has no such process; the entry logged when the request completes carries
\* the name and the port of the request, whatever the snapshot is by then.
C33_TargetAsInvoked ==
    [][/\ last'.op = "killProcess" =>
              \E i \in BagToSet(pending') :
                 /\ pending' = BagAdd(pending, i)
                 /\ i.op = "kill" /\ i.pid = last'.pid
                 /\ IF WithPid(last'.pid) = {}
                    THEN i.processName = "Unknown" /\ i.port = Null
                    ELSE /\ i.processName = FirstWithPid(last'.pid).name
                         /\ i.port = (IF Len(FirstWithPid(last'.pid).ports) = 0 THEN Null
                                      ELSE Head(FirstWithPid(last'.pid).ports).localPort)
       /\ (last'.op \in {"actionResolved", "actionRejected"} /\ last'.invocation.op = "kill") =>
              /\ history'[1].processName = last'.invocation.processName
              /\ history'[1].port = last'.invocation.port
              /\ history'[1].pid = last'.invocation.pid]_vars

\* node was killed while it was in the snapshot; a fetch replaced the
\* snapshot by one without node before the answer came, and the entry still
\* names node and its port 3000
C33_Witness ==
    /\ last.op = "actionResolved"
    /\ last.invocation.op = "kill"
    /\ history[1].pid = 100
    /\ history[1].processName = "node"
    /\ history[1].port = 3000
    /\ WithPid(100) = {}
    /\ processes # <<>>

\* the processes of the snapshot that run in the container with the given id
InContainer(id) ==
    {k \in 1..Len(processes) :
        processes[k].container # NoContainer /\ processes[k].container[1].id = id}
FirstInContainer(id) ==
    processes[CHOOSE k \in InContainer(id) : \A j \in InContainer(id) : k <= j]

\* C34: the request a containerAction(containerId, action) issues carries,
\* when the snapshot holds a process in that container, the container name
\* and the pid of that process, and otherwise the first 12 characters of
\* containerId and pid 0; the entry logged at its completion carries the
\* name and the pid of the request.
C34_ContainerTarget ==
    [][/\ last'.op = "containerAction" =>
              \E i \in BagToSet(pending') :
                 /\ pending' = BagAdd(pending, i)
                 /\ i.op = "container" /\ i.target = last'.containerId
                 /\ IF InContainer(last'.containerId) = {}
                    THEN /\ Len(i.processName) = 12
                         /\ i.processName \o SubSeq(last'.containerId, 13, Len(last'.containerId))
                                = last'.containerId
                         /\ i.pid = 0
                    ELSE /\ i.processName = FirstInContainer(last'.containerId).container[1].name
                         /\ i.pid = FirstInContainer(last'.containerId).pid
       /\ (last'.op \in {"actionResolved", "actionRejected"}
              /\ last'.invocation.op = "container") =>
              /\ history'[1].processName = last'.invocation.processName
              /\ history'[1].pid = last'.invocation.pid]_vars

\* no process of the snapshot runs in the container: the entry is named by
\* the first 12 characters of the id and has pid 0
C34_Witness ==
    /\ last.op = "actionResolved"
    /\ last.invocation.op = "container"
    /\ InContainer(last.invocation.target) = {}
    /\ processes # <<>>
    /\ history[1].processName = "0123456789ab"
    /\ history[1].pid = 0

\* C35: the request of killProcess(pid, force) is of kind 'kill' when force
\* is false and 'force_kill' when it is true; the request of
\* containerAction is of kind 'container_stop' for stop and
\* 'container_kill' for kill, and of kind 'container_kill' for no other
\* action; the entry logged at completion has the kind of its request.
C35_KindIdentifiesAction ==
    [][/\ last'.op = "killProcess" =>
              \E i \in BagToSet(pending') :
                 /\ pending' = BagAdd(pending, i)
                 /\ i.kind = (IF last'.force THEN "force_kill" ELSE "kill")
       /\ last'.op = "containerAction" =>
              \E i \in BagToSet(pending') :
                 /\ pending' = BagAdd(pending, i)
                 /\ last'.action = "stop" => i.kind = "container_stop"
                 /\ last'.action = "kill" => i.kind = "container_kill"
                 /\ i.kind = "container_kill" => last'.action = "kill"
       /\ last'.op \in {"actionResolved", "actionRejected"} =>
              history'[1].action = last'.invocation.kind]_vars

\* C36: isLoading is true exactly when at least one fetch, of a poll chain,
\* of a manual refresh or of a follow-up, is in flight.
C36_LoadingIffInFlight ==
    isLoading <=> InFlight > 0

\* C37: when a fetch has just completed and no other is in flight, error is
\* null if that fetch resolved and is its message (the default text when it
\* has none) if it was rejected.
C37_ErrorOfLastCompletion ==
    InFlight = 0 =>
        /\ FetchSucceeded(last.op) => error = NoError
        /\ FetchFailed(last.op) =>
               error = (IF last.message = "" THEN FetchFailedText ELSE last.message)

\* C38: the step in which a settle timer fires takes that timer out, puts
\* one follow-up request in flight and sets isLoading, whether isPolling is
\* true or false; it leaves isPolling, pollingInterval and the poll chains
\* as they are and arms no timer, and the completion of a follow-up fetch
\* arms no timer and touches no chain either.
C38_FollowUpIgnoresPolling ==
    [][/\ last'.op = "followUpTimerFired" =>
              /\ BagIn(last'.delay, timers)
              /\ timers' = BagDel(timers, last'.delay)
              /\ BagCardinality(fetches') = BagCardinality(fetches) + 1
              /\ \E f \in BagToSet(fetches') :
                     f.origin = "followup" /\ fetches' = BagAdd(fetches, f)
              /\ isLoading'
              /\ UNCHANGED <<isPolling, pollingInterval, chains>>
       /\ (last'.op \in {"fetchResolved", "fetchRejected"}
              /\ last'.fetch.origin = "followup") =>
              UNCHANGED <<isPolling, pollingInterval, chains, timers>>]_vars

\* polling was stopped while its chain is still alive, and the settle timer
\* of a container stop has fired all the same: its fetch is in flight
C38_Witness ==
    /\ last.op = "followUpTimerFired"
    /\ last.delay = ContainerSettleDelay
    /\ ~isPolling
    /\ chains # EmptyBag
    /\ \E f \in BagToSet(fetches) : f.origin = "followup"
    /\ timers = EmptyBag
    /\ isLoading

\* the requests this step puts in flight, of manual and of poll fetches
IssuedNow ==
    {f \in BagToSet(fetches') : CopiesIn(f, fetches') > CopiesIn(f, fetches)}
      \cup {c \in BagToSet(chains') :
               c.phase = "fetch" /\ CopiesIn(c, chains') > CopiesIn(c, chains)}

\* C39: a step that issues a fetch, manual or of a poll chain, issues one
\* request, and the request carries the showAllConnections the filter holds
\* in that step; setFilterOptions issues no request and leaves the snapshot
\* and the requests in flight as they are; a fetch that resolves replaces
\* the snapshot by the answer to its request, whatever showAllConnections
\* the request carried and whatever the filter holds by then.
C39_ScopeAsIssued ==
    [][/\ (\/ last'.op = "fetchProcesses"
           \/ last'.op = "startPolling" /\ ~last'.wasPolling
           \/ last'.op = "pollTimerFired" /\ last'.wasPolling)
              => /\ Cardinality(IssuedNow) = 1
                 /\ \A f \in IssuedNow : f.showAll = filterOptions.showAllConnections
                 /\ filterOptions' = filterOptions
       /\ last'.op = "setFilterOptions"
              => /\ IssuedNow = {}
                 /\ UNCHANGED <<snapshotVars, loadVars, fetches, chains>>
       /\ FetchSucceeded(last'.op)
              => /\ Snapshot' = last'.result
                 /\ \/ BagIn(last'.fetch, fetches)
                    \/ BagIn(last'.fetch, chains)
                 /\ IssuedNow = {}]_vars

\* the filter asks for all connections, and the step before stored the
\* answer to a request that asked for them; now a fetch that was issued
\* before the switch, asking for the listening sockets only, has resolved
\* last, and its answer is the snapshot
C39_Witness ==
    /\ last.op = "fetchResolved"
    /\ ~last.fetch.showAll
    /\ last.replaced = <<TRUE>>
    /\ filterOptions.showAllConnections
    /\ Snapshot = last.result
    /\ Snapshot # last.before
    /\ InFlight = 0
====
